---- MODULE Spec2Model ----
(***************************************************************************)
(* GeonsitQ: district metrics analyzer with its pickle cache, the          *)
(* observable MapState and its observers.                                  *)
(*                                                                         *)
(* Scores are fixed-point numbers in thousandths (1000 = 1.0).  Time is    *)
(* counted in whole hours.  Geometric predicates (intersection areas,      *)
(* containment, distances) are results of the geometry library and are     *)
(* given per district by WorldDistrict.                                    *)
(***************************************************************************)
EXTENDS Integers, Sequences, FiniteSets, TLC

\* ------------------------------------------------------------- bounds
MaxTime == 2
MaxDistricts == 2
TtlHours == 1

\* ------------------------------------------------------------- helpers
Min(a, b) == IF a < b THEN a ELSE b
Max(a, b) == IF a > b THEN a ELSE b
Range(s) == {s[i] : i \in DOMAIN s}

\* Python values that may stand where a DataFrame is expected
None == [type |-> "NoneType"]
DataFrame(cols, rows) == [type |-> "DataFrame", columns |-> cols, rows |-> rows]
IsoTime(t) == [iso |-> TRUE, t |-> t]
NotIsoTime == [iso |-> FALSE]

\* ------------------------------------------------------------- the world
\* What the geometry library answers for each district polygon against the
\* overlay layers (crime zones, stops, routes, metro, parks, POIs).
WorldDistrict(d) ==
  CASE d = 1 ->
         [name |-> "Centro", valid |-> TRUE, area_milli_km2 |-> 2000,
          crime |-> <<[gridcode |-> 1, area |-> 3], [gridcode |-> 3, area |-> 1]>>,
          stops |-> 12, routes |-> {"R1", "R2", "R3"}, has_route_field |-> TRUE,
          stations_inside |-> 1, nearest_station |-> 0,
          line_intersects |-> TRUE, line_distance |-> 0,
          parks |-> <<[geom_type |-> "Polygon", area |-> 1200, valid |-> TRUE, inter |-> 60],
                      [geom_type |-> "Polygon", area |-> 600, valid |-> TRUE, inter |-> 30],
                      [geom_type |-> "Point", area |-> 0, valid |-> TRUE, inter |-> 0]>>,
          pois |-> <<[shop |-> "mall", tourism |-> ""], [shop |-> "", tourism |-> "museum"],
                     [shop |-> "", tourism |-> "hotel"]>>]
    [] d = 2 ->
         [name |-> "Norte", valid |-> TRUE, area_milli_km2 |-> 5000,
          crime |-> <<[gridcode |-> 5, area |-> 2], [gridcode |-> 7, area |-> 1],
                      [gridcode |-> 4, area |-> 2]>>,
          stops |-> 10, routes |-> {"R1"}, has_route_field |-> TRUE,
          stations_inside |-> 0, nearest_station |-> 800,
          line_intersects |-> FALSE, line_distance |-> 1500,
          parks |-> <<[geom_type |-> "MultiPolygon", area |-> 800, valid |-> TRUE, inter |-> 40],
                      [geom_type |-> "Polygon", area |-> 2000, valid |-> TRUE, inter |-> 50]>>,
          pois |-> <<[shop |-> "", tourism |-> "attraction"]>>]
    [] d = 3 ->
         [name |-> "Sur", valid |-> TRUE, area_milli_km2 |-> 1000,
          crime |-> <<>>,
          stops |-> 0, routes |-> {}, has_route_field |-> TRUE,
          stations_inside |-> 0, nearest_station |-> 2500,
          line_intersects |-> FALSE, line_distance |-> 2500,
          parks |-> <<[geom_type |-> "Polygon", area |-> 5000, valid |-> TRUE, inter |-> 400]>>,
          pois |-> <<>>]
    [] OTHER ->
         [name |-> "Invalido", valid |-> FALSE, area_milli_km2 |-> 0,
          crime |-> <<[gridcode |-> 2, area |-> 1]>>,
          stops |-> 3, routes |-> {"R9"}, has_route_field |-> TRUE,
          stations_inside |-> 0, nearest_station |-> 100,
          line_intersects |-> FALSE, line_distance |-> 100,
          parks |-> <<>>,
          pois |-> <<[shop |-> "mall", tourism |-> ""]>>]

\* ------------------------------------------------------------- metric calculators
\* calculate_safety_score: area-weighted mean gridcode, rescaled and clipped.
InRangeZone(z) == z.area > 0 /\ 1 <= z.gridcode /\ z.gridcode <= 5
RECURSIVE WeightedGridcode(_)
WeightedGridcode(zs) ==
  IF zs = <<>> THEN 0 ELSE Head(zs).gridcode * Head(zs).area + WeightedGridcode(Tail(zs))
RECURSIVE TotalArea(_)
TotalArea(zs) == IF zs = <<>> THEN 0 ELSE Head(zs).area + TotalArea(Tail(zs))

calculate_safety_score(d, crime_present, invert_scale) ==
  LET w == WorldDistrict(d)
      used == SelectSeq(w.crime, InRangeZone)
      total_area == TotalArea(used)
      avg_gridcode == (WeightedGridcode(used) * 1000) \div total_area
      raw == IF invert_scale THEN (5000 - avg_gridcode) \div 4
                             ELSE (avg_gridcode - 1000) \div 4
  IN IF ~w.valid THEN 500
     ELSE IF ~crime_present THEN 500
     ELSE IF w.crime = <<>> THEN 500
     ELSE IF total_area = 0 THEN 500
     ELSE Max(0, Min(1000, raw))

\* calculate_transport_score: the available sub-scores, weights renormalised.
BusDensityScore(w) ==
  IF w.area_milli_km2 > 0
    THEN Min((w.stops * 100000) \div w.area_milli_km2, 1000)
    ELSE 0
RouteConnectivityScore(w) ==
  IF w.routes # {} /\ w.has_route_field
    THEN Min((Cardinality(w.routes) * 1000) \div 5, 1000)
    ELSE 0
MetroStationScore(w) ==
  IF w.stations_inside > 0 THEN 1000
  ELSE IF w.nearest_station > 2000 THEN 0
  ELSE IF w.nearest_station < 500 THEN 800
  ELSE IF w.nearest_station < 1000 THEN 600
  ELSE IF w.nearest_station < 2000 THEN 300
  ELSE 0
MetroLineScore(w) ==
  IF w.line_intersects THEN 700
  ELSE IF w.line_distance < 1000 THEN 400
  ELSE IF w.line_distance < 2000 THEN 200
  ELSE 0

\* (variant: an absent layer keeps its weight and scores zero)
calculate_transport_score_fixed_weights(d, ov) ==
  LET w == WorldDistrict(d)
      metro_score == IF ov.metro_stations THEN MetroStationScore(w)
                     ELSE IF ov.metro_line THEN MetroLineScore(w) ELSE 0
      weighted == (IF ov.bus_stops THEN BusDensityScore(w) * 400 ELSE 0)
                  + (IF ov.bus_routes THEN RouteConnectivityScore(w) * 300 ELSE 0)
                  + metro_score * 300
  IN IF ~w.valid THEN 0 ELSE Max(0, Min(1000, weighted \div 1000))
calculate_transport_score(d, ov) ==
  LET w == WorldDistrict(d)
      has_metro_data == ov.metro_stations \/ ov.metro_line
      metro_score == IF ov.metro_stations THEN MetroStationScore(w) ELSE MetroLineScore(w)
      parts == (IF ov.bus_stops THEN {"bus_density"} ELSE {})
               \cup (IF ov.bus_routes THEN {"route_connectivity"} ELSE {})
               \cup (IF has_metro_data THEN {"metro"} ELSE {})
      weight(c) == IF c = "bus_density" THEN 400 ELSE 300
      score(c) == IF c = "bus_density" THEN BusDensityScore(w)
                  ELSE IF c = "route_connectivity" THEN RouteConnectivityScore(w)
                  ELSE metro_score
      present(c) == IF c \in parts THEN 1 ELSE 0
      total_weight == present("bus_density") * weight("bus_density")
                      + present("route_connectivity") * weight("route_connectivity")
                      + present("metro") * weight("metro")
      weighted == present("bus_density") * score("bus_density") * weight("bus_density")
                  + present("route_connectivity") * score("route_connectivity")
                      * weight("route_connectivity")
                  + present("metro") * score("metro") * weight("metro")
  IN IF ~w.valid THEN 0
     ELSE IF parts = {} THEN 0
     ELSE IF total_weight = 0 THEN 0
     ELSE Max(0, Min(1000, weighted \div total_weight))

\* calculate_area_coverage: sum of the intersection shares, capped at 1.
RECURSIVE InterSum(_)
InterSum(ps) ==
  IF ps = <<>> THEN 0
  ELSE (IF Head(ps).valid THEN Head(ps).inter ELSE 0) + InterSum(Tail(ps))
calculate_area_coverage(w, ps) ==
  LET touching == SelectSeq(ps, LAMBDA p : p.inter > 0)
  IN IF ~w.valid THEN 0
     ELSE IF ps = <<>> THEN 0
     ELSE IF w.area_milli_km2 = 0 THEN 0
     ELSE IF touching = <<>> THEN 0
     ELSE Min(InterSum(touching), 1000)

calculate_green_score(d, parks_present, ideal_coverage, min_park_area) ==
  LET w == WorldDistrict(d)
      parks_filtered == SelectSeq(w.parks,
                          LAMBDA p : p.geom_type \in {"Polygon", "MultiPolygon"})
      parks_utm == SelectSeq(parks_filtered, LAMBDA p : p.area >= min_park_area)
      coverage == calculate_area_coverage(w, parks_utm)
  IN IF ~w.valid THEN 0
     ELSE IF ~parks_present \/ w.parks = <<>> THEN 0
     ELSE IF parks_filtered = <<>> THEN 0
     ELSE IF parks_utm = <<>> THEN 0
     ELSE Min((coverage * 1000) \div ideal_coverage, 1000)

\* calculate_services_score: weighted POI count against 10 weighted POIs.
PoiWeight(poi) ==
  IF poi.shop # ""
    THEN (IF poi.shop = "mall" THEN 1500 ELSE 800)
  ELSE IF poi.tourism # ""
    THEN (CASE poi.tourism = "museum" -> 1200
            [] poi.tourism = "attraction" -> 1000
            [] poi.tourism = "viewpoint" -> 1000
            [] poi.tourism = "gallery" -> 1000
            [] poi.tourism = "theme_park" -> 1200
            [] OTHER -> 800)
  ELSE 800
RECURSIVE PoiSum(_)
PoiSum(ps) == IF ps = <<>> THEN 0 ELSE PoiWeight(Head(ps)) + PoiSum(Tail(ps))
calculate_services_score(d, tourist_present) ==
  LET w == WorldDistrict(d)
  IN IF ~w.valid THEN 0
     ELSE IF ~tourist_present THEN 0
     ELSE IF w.pois = <<>> THEN 0
     ELSE Min(PoiSum(w.pois) \div 10, 1000)

\* ------------------------------------------------------------- analyzer state
VARIABLES
  config,         \* DistrictAnalyzer.config (the keys the analyzer reads)
  districts_gdf,  \* None, or the loaded district collection (sequence of ids)
  overlays,       \* which overlay GeoDataFrames are set (not None)
  metrics_df,     \* DistrictAnalyzer.metrics_df
  cache_dir,      \* the cache directory: file key -> file
  now,            \* the wall clock, in hours
  last            \* the last call on the analyzer and what it returned

avars == <<config, districts_gdf, overlays, metrics_df, cache_dir, now, last>>

\* The configurations an analyzer may be constructed with.
_default_config ==
  [cache_enabled |-> TRUE, ttl_hours |-> TtlHours, safety_inversion |-> TRUE,
   ideal_green_coverage |-> 150, min_park_area |-> 1000]

\* the default configuration, and the default with one value changed
Configs ==
  {_default_config,
   [_default_config EXCEPT !.cache_enabled = FALSE],
   [_default_config EXCEPT !.safety_inversion = FALSE],
   [_default_config EXCEPT !.ideal_green_coverage = 200],
   [_default_config EXCEPT !.min_park_area = 500]}

\* District collections: non-empty sequences of distinct district ids.
DistrictIds == 1..MaxDistricts
DistrictCollections ==
  {[i \in 1..n |-> i] : n \in DistrictIds} \cup {[i \in 1..n |-> n + 1 - i] : n \in DistrictIds}

NoOverlays ==
  [crime |-> FALSE, bus_stops |-> FALSE, bus_routes |-> FALSE,
   metro_stations |-> FALSE, metro_line |-> FALSE, parks |-> FALSE, tourist |-> FALSE]
AllOverlays == [k \in DOMAIN NoOverlays |-> TRUE]

CurrentVersion == "1.0.0"
RequiredKeys == {"metrics_df", "timestamp", "config_hash", "version"}
RequiredCols == {"district_name", "safety", "transport", "green", "services"}
MetricCols == {"safety", "transport", "green", "services"}
AllCols == {"district_id", "district_name", "geometry"} \cup MetricCols

\* (variant: min_park_area left out of the hashed configuration)
_generate_cache_key_without_area(cfg) ==
  IF cfg.safety_inversion
    THEN (IF cfg.ideal_green_coverage = 150 THEN "284d2d4a" ELSE "fc2d2a5e")
    ELSE (IF cfg.ideal_green_coverage = 150 THEN "61927ab8" ELSE "72479390")
\* _generate_cache_key: md5(json.dumps(cache_config, sort_keys=True))[:8], as
\* Python computes it for each configuration of Configs.
_generate_cache_key(cfg) ==
  LET si == cfg.safety_inversion
      igc == cfg.ideal_green_coverage
      mpa == cfg.min_park_area
  IN CASE si /\ igc = 150 /\ mpa = 1000 -> "284d2d4a"
       [] si /\ igc = 150 /\ mpa = 500 -> "a24f4b51"
       [] si /\ igc = 200 /\ mpa = 1000 -> "fc2d2a5e"
       [] si /\ igc = 200 /\ mpa = 500 -> "5a08437b"
       [] ~si /\ igc = 150 /\ mpa = 1000 -> "61927ab8"
       [] ~si /\ igc = 150 /\ mpa = 500 -> "83c3d50f"
       [] ~si /\ igc = 200 /\ mpa = 1000 -> "72479390"
       [] ~si /\ igc = 200 /\ mpa = 500 -> "e8a9305c"

\* _get_cache_filepath: district_metrics_<key>.pkl, named here by its key.
_get_cache_filepath(cfg) == _generate_cache_key(cfg)

Unlink(dir, name) == [k \in DOMAIN dir \ {name} |-> dir[k]]
WriteFile(dir, name, file) ==
  [k \in DOMAIN dir \cup {name} |-> IF k = name THEN file ELSE dir[k]]

\* _analyze_single_district: one row of the metrics table.
_analyze_single_district(d, cfg, ov) ==
  [district_id |-> d,
   district_name |-> WorldDistrict(d).name,
   geometry |-> d,
   safety |-> IF ov.crime
                THEN calculate_safety_score(d, ov.crime, cfg.safety_inversion)
                ELSE 500,
   transport |-> calculate_transport_score(d, ov),
   green |-> IF ov.parks
               THEN calculate_green_score(d, ov.parks, cfg.ideal_green_coverage,
                                          cfg.min_park_area)
               ELSE 0,
   services |-> IF ov.tourist THEN calculate_services_score(d, ov.tourist) ELSE 0]

ComputeMetrics(ds, cfg, ov) ==
  DataFrame(AllCols, [i \in DOMAIN ds |-> _analyze_single_district(ds[i], cfg, ov)])

\* (variant: an entry whose age equals the TTL counts as expired)
CacheExpiredAtTtl(age, ttl_hours) == age >= ttl_hours
\* the TTL test of get_cached_metrics: age > timedelta(hours=ttl)
CacheExpired(age, ttl_hours) == age > ttl_hours

\* get_cached_metrics: what the read returns and whether the except branch
\* unlinked the file.
get_cached_metrics(cfg, dir, t) ==
  LET cache_file == _get_cache_filepath(cfg)
      f == dir[cache_file]
      cached_data == f.data
      miss == [ret |-> None, unlink |-> FALSE]
      corrupt == [ret |-> None, unlink |-> TRUE]
  IN IF cache_file \notin DOMAIN dir THEN miss
     ELSE IF f.kind = "garbage" THEN corrupt
     ELSE IF f.kind # "dict" THEN miss
     ELSE IF ~(RequiredKeys \subseteq DOMAIN cached_data) THEN miss
     ELSE IF cached_data.version # CurrentVersion THEN miss
     ELSE IF cached_data.config_hash # _generate_cache_key(cfg) THEN miss
     ELSE IF ~cached_data.timestamp.iso THEN corrupt
     ELSE IF CacheExpired(t - cached_data.timestamp.t, cfg.ttl_hours) THEN miss
     ELSE IF cached_data.metrics_df.type # "DataFrame" THEN corrupt
     ELSE IF ~(RequiredCols \subseteq cached_data.metrics_df.columns) THEN miss
     ELSE [ret |-> cached_data.metrics_df, unlink |-> FALSE]

\* (variant: the clean-up finds no file to remove)
_cleanup_old_caches_keeps_all(cfg, dir) == dir
\* (variant: the clean-up removes the current file too)
_cleanup_old_caches_removes_all(cfg, dir) == [k \in {} |-> dir[k]]
\* _cleanup_old_caches: unlink every district_metrics_*.pkl but the current one.
_cleanup_old_caches(cfg, dir) ==
  [k \in DOMAIN dir \cap {_get_cache_filepath(cfg)} |-> dir[k]]

\* _save_to_cache: write the current-configuration file, then clean up.
_save_to_cache(cfg, dir, df, t) ==
  LET cache_data ==
        [metrics_df |-> df,
         timestamp |-> IsoTime(t),
         config_hash |-> _generate_cache_key(cfg),
         version |-> CurrentVersion,
         metadata |-> [num_districts |-> Len(df.rows),
                       columns |-> df.columns,
                       config |-> [ttl_hours |-> cfg.ttl_hours,
                                   safety_inversion |-> cfg.safety_inversion]]]
      file == [kind |-> "dict", mtime |-> t, data |-> cache_data]
  IN _cleanup_old_caches(cfg, WriteFile(dir, _get_cache_filepath(cfg), file))

\* get_cache_info: read-only report on the current-configuration file.
get_cache_info(cfg, dir, t) ==
  LET cache_file == _get_cache_filepath(cfg)
      exists == cache_file \in DOMAIN dir
  IN [cache_file |-> cache_file,
      exists |-> exists,
      enabled |-> cfg.cache_enabled,
      ttl_hours |-> cfg.ttl_hours,
      config_hash |-> _generate_cache_key(cfg),
      is_valid |-> exists /\ (t - dir[cache_file].mtime <= cfg.ttl_hours)]

\* (variant: the file is left in place)
invalidate_cache_keeps_file(cfg, dir) == dir
\* invalidate_cache: unlink the current-configuration file when it exists.
invalidate_cache(cfg, dir) ==
  LET cache_file == _get_cache_filepath(cfg)
  IN IF cache_file \in DOMAIN dir THEN Unlink(dir, cache_file) ELSE dir

\* ------------------------------------------------------------- analyzer operations
GeoDataFrame(ids) == [type |-> "GeoDataFrame", ids |-> ids]
\* `last` records the call: its name and arguments, how it ended, what
\* get_cached_metrics returned, and for analyze_all_districts what preceded it
\* (a completed forced refresh, an invalidation) and whether a file of another
\* configuration hash was in the directory.
Call(op, force, outcome, ret) ==
  [op |-> op, force |-> force, outcome |-> outcome, ret |-> ret,
   prev |-> "-", stale |-> FALSE]
AnalyzeCall(force_refresh, outcome) ==
  [op |-> "analyze_all_districts", force |-> force_refresh, outcome |-> outcome,
   ret |-> None,
   prev |-> IF last.op = "analyze_all_districts" /\ last.force
                 /\ last.outcome = "computed"
              THEN "refresh"
              ELSE IF last.op = "invalidate_cache" THEN "invalidate" ELSE "-",
   stale |-> DOMAIN cache_dir \ {_get_cache_filepath(config)} # {}]

\* DistrictAnalyzer.__init__ (a new analyzer over the same cache directory)
DistrictAnalyzerInit(cfg) ==
  /\ config' = cfg
  /\ districts_gdf' = None
  /\ overlays' = NoOverlays
  /\ metrics_df' = None
  /\ last' = Call("__init__", FALSE, "ok", None)
  /\ UNCHANGED <<cache_dir, now>>

\* load_data(districts_gdf, parks_gdf, tourist_places_gdf) and _load_shapefiles;
\* shp tells whether the shapefiles of the settings can be read.
load_data(ids, parks, tourist, shp) ==
  IF Len(ids) = 0
    THEN /\ last' = Call("load_data", FALSE, "ValueError", None)
         /\ UNCHANGED <<config, districts_gdf, overlays, metrics_df, cache_dir, now>>
    ELSE /\ districts_gdf' = GeoDataFrame(ids)
         /\ overlays' = [crime |-> overlays.crime \/ shp,
                         bus_stops |-> overlays.bus_stops \/ shp,
                         bus_routes |-> overlays.bus_routes \/ shp,
                         metro_stations |-> overlays.metro_stations \/ shp,
                         metro_line |-> overlays.metro_line \/ shp,
                         parks |-> overlays.parks \/ parks,
                         tourist |-> overlays.tourist \/ tourist]
         /\ last' = Call("load_data", FALSE, "ok", None)
         /\ UNCHANGED <<config, metrics_df, cache_dir, now>>

\* analyze_all_districts(force_refresh)
analyze_all_districts(force_refresh) ==
  LET try_cache == ~force_refresh /\ config.cache_enabled
      read == get_cached_metrics(config, cache_dir, now)
      dir_read == IF try_cache /\ read.unlink
                    THEN Unlink(cache_dir, _get_cache_filepath(config))
                    ELSE cache_dir
      computed == ComputeMetrics(districts_gdf.ids, config, overlays)
  IN IF try_cache /\ read.ret # None
       THEN /\ metrics_df' = read.ret
            /\ last' = AnalyzeCall(force_refresh, "cached")
            /\ UNCHANGED <<config, districts_gdf, overlays, cache_dir, now>>
     ELSE IF districts_gdf = None
       THEN /\ cache_dir' = dir_read
            /\ last' = AnalyzeCall(force_refresh, "ValueError")
            /\ UNCHANGED <<config, districts_gdf, overlays, metrics_df, now>>
     ELSE /\ metrics_df' = computed
          /\ cache_dir' = IF config.cache_enabled
                            THEN _save_to_cache(config, dir_read, computed, now)
                            ELSE dir_read
          /\ last' = AnalyzeCall(force_refresh, "computed")
          /\ UNCHANGED <<config, districts_gdf, overlays, now>>

\* a direct call of get_cached_metrics()
GetCachedMetrics ==
  LET read == get_cached_metrics(config, cache_dir, now)
  IN /\ cache_dir' = IF read.unlink
                       THEN Unlink(cache_dir, _get_cache_filepath(config))
                       ELSE cache_dir
     /\ last' = Call("get_cached_metrics", FALSE,
                     IF read.ret # None THEN "hit" ELSE "miss", read.ret)
     /\ UNCHANGED <<config, districts_gdf, overlays, metrics_df, now>>

\* a call of invalidate_cache()
InvalidateCache ==
  /\ cache_dir' = invalidate_cache(config, cache_dir)
  /\ last' = Call("invalidate_cache", FALSE, "ok", None)
  /\ UNCHANGED <<config, districts_gdf, overlays, metrics_df, now>>

\* a call of get_cache_info(); the returned dict is recorded
Dict(d) == [type |-> "dict", value |-> d]
GetCacheInfo ==
  /\ last' = Call("get_cache_info", FALSE,
                  IF get_cache_info(config, cache_dir, now).exists
                    THEN "exists" ELSE "absent",
                  Dict(get_cache_info(config, cache_dir, now)))
  /\ UNCHANGED <<config, districts_gdf, overlays, metrics_df, cache_dir, now>>

\* ------------------------------------------------------------- environment
\* One hour passes.
Tick ==
  /\ now < MaxTime
  /\ now' = now + 1
  /\ UNCHANGED <<config, districts_gdf, overlays, metrics_df, cache_dir, last>>

\* Files another program (or an older release, or a failing disk) may leave
\* in the cache directory under the name `name`.
SampleDF == ComputeMetrics(<<1>>, _default_config, NoOverlays)
ForeignData(name, t) ==
  [metrics_df |-> SampleDF, timestamp |-> IsoTime(t), config_hash |-> name,
   version |-> CurrentVersion]
ForeignFiles(name, t) ==
  {[kind |-> "garbage", mtime |-> t],
   [kind |-> "list", mtime |-> t]}
  \cup
  {[kind |-> "dict", mtime |-> t, data |-> d] :
     d \in {ForeignData(name, t),
            [k \in RequiredKeys \ {"version"} |-> ForeignData(name, t)[k]],
            [ForeignData(name, t) EXCEPT !.version = "0.9.0"],
            [ForeignData(name, t) EXCEPT !.config_hash = "00000000"],
            [ForeignData(name, t) EXCEPT !.timestamp = NotIsoTime],
            [ForeignData(name, t) EXCEPT !.metrics_df = [type |-> "list"]],
            [ForeignData(name, t) EXCEPT
               !.metrics_df = DataFrame(AllCols \ {"green"}, SampleDF.rows)]}}

\* A foreign file replaces the cache file or appears in an empty directory.
PlantFile(name, file) ==
  /\ DOMAIN cache_dir \subseteq {name}
  /\ cache_dir' = WriteFile(cache_dir, name, file)
  /\ last' = Call("plant", FALSE, "ok", None)
  /\ UNCHANGED <<config, districts_gdf, overlays, metrics_df, now>>

\* ------------------------------------------------------------- strategies
\* A strategy object is named by its key in StrategyFactory._STRATEGIES.
\* Weights are in hundredths; a base score is in units of 10^-5, a score
\* after the penalty in units of 10^-7, a final score in units of 10^-9.
Strategies == {"quality_of_life", "tourist", "convenience"}
Strategy(key) == [type |-> "Strategy", key |-> key]
Str(s) == [type |-> "str", value |-> s]

\* (variant: quality of life weighs green 0.35 and transport 0.25)
_default_weights_green_first(key) ==
  CASE key = "quality_of_life" ->
         [safety |-> 40, transport |-> 25, green |-> 35, services |-> 0]
    [] key = "tourist" ->
         [services |-> 40, safety |-> 35, transport |-> 25, green |-> 0]
    [] key = "convenience" ->
         [services |-> 45, transport |-> 35, green |-> 20, safety |-> 0]
_default_weights(key) ==
  CASE key = "quality_of_life" ->
         [safety |-> 40, transport |-> 35, green |-> 25, services |-> 0]
    [] key = "tourist" ->
         [services |-> 40, safety |-> 35, transport |-> 25, green |-> 0]
    [] key = "convenience" ->
         [services |-> 45, transport |-> 35, green |-> 20, safety |-> 0]

get_name(key) ==
  CASE key = "quality_of_life" -> "Calidad de Vida"
    [] key = "tourist" -> "Turista/Visitante"
    [] key = "convenience" -> "Servicios y Conveniencia"

\* dict.get(k, default)
Get(d, k, default) == IF k \in DOMAIN d THEN d[k] ELSE default

\* float('nan') among the metric values: no number, and every comparison
\* with it is False
NaN == -1
Lt(a, b) == a # NaN /\ a < b
Gt(a, b) == a # NaN /\ a > b

RECURSIVE WeightedSum(_, _, _)
WeightedSum(ms, metrics, w) ==
  IF ms = {} THEN 0
  ELSE LET m == CHOOSE x \in ms : TRUE
       IN metrics[m] * w[m] + WeightedSum(ms \ {m}, metrics, w)

RECURSIVE WeightSum(_, _)
WeightSum(ms, w) ==
  IF ms = {} THEN 0
  ELSE LET m == CHOOSE x \in ms : TRUE
       IN w[m] + WeightSum(ms \ {m}, w)

\* (variant: an absent or NaN metric counts as zero and keeps its weight)
calculate_score_absent_as_zero(key, metrics) ==
  LET w == _default_weights(key)
      present == {m \in DOMAIN w \cap DOMAIN metrics : metrics[m] # NaN}
  IN (WeightedSum(present, metrics, w) * 100) \div WeightSum(DOMAIN w, w)
\* calculate_score: the weighted average over the metrics of the weight map
\* that are in the input and pass pd.notna.
calculate_score(key, metrics) ==
  LET w == _default_weights(key)
      present == {m \in DOMAIN w \cap DOMAIN metrics : metrics[m] # NaN}
      total_score == WeightedSum(present, metrics, w)
      total_weight == WeightSum(present, w)
  IN IF total_weight > 0 THEN (total_score * 100) \div total_weight ELSE 0

\* apply_penalties: base_score * penalty
apply_penalties(key, metrics, base_score) ==
  CASE key = "quality_of_life" ->
         IF Lt(Get(metrics, "safety", 500), 300) THEN base_score * 80
         ELSE base_score * 100
    [] key = "tourist" ->
         IF Lt(Get(metrics, "safety", 500), 400) THEN base_score * 70
         ELSE IF Lt(Get(metrics, "safety", 500), 600) THEN base_score * 90
         ELSE base_score * 100
    [] key = "convenience" ->
         IF Lt(Get(metrics, "services", 0), 300) \/ Lt(Get(metrics, "transport", 0), 300)
           THEN base_score * 85
           ELSE base_score * 100

\* apply_bonuses: min(base_score * bonus, 1.0)
apply_bonuses(key, metrics, base_score) ==
  LET one == 1000 * 1000 * 1000
      safety == Get(metrics, "safety", 0)
      green == Get(metrics, "green", 0)
      services == Get(metrics, "services", 0)
      transport == Get(metrics, "transport", 0)
  IN CASE key = "quality_of_life" ->
            IF Gt(safety, 800) /\ Gt(green, 600) THEN Min(base_score * 110, one)
            ELSE base_score * 100
       [] key = "tourist" ->
            IF Gt(services, 700) THEN Min(base_score * 115, one)
            ELSE IF Gt(transport, 800) THEN Min(base_score * 110, one)
            ELSE base_score * 100
       [] key = "convenience" ->
            IF Gt(services, 600) /\ Gt(transport, 600) /\ Gt(green, 600)
              THEN Min(base_score * 120, one)
            ELSE IF Gt(services, 700) /\ Gt(transport, 700)
              THEN Min(base_score * 110, one)
            ELSE base_score * 100

\* (variant: the bonus is applied to the base score, the penalty after it)
calculate_final_score_bonus_first(key, metrics) ==
  LET base_score == calculate_score(key, metrics)
      score_with_bonuses == Min(apply_bonuses(key, metrics, base_score), 10000000)
      final_score == apply_penalties(key, metrics, score_with_bonuses)
  IN Max(0, Min(1000 * 1000 * 1000, final_score))
\* calculate_final_score: penalties, then bonuses, then the clamp to [0, 1]
calculate_final_score(key, metrics) ==
  LET base_score == calculate_score(key, metrics)
      score_with_penalties == apply_penalties(key, metrics, base_score)
      final_score == apply_bonuses(key, metrics, score_with_penalties)
  IN Max(0, Min(1000 * 1000 * 1000, final_score))

\* ------------------------------------------------------------- MapState and observers
VARIABLES
  _observers,              \* MapState._observers, in attachment order
  _notifications_enabled,  \* MapState._notifications_enabled
  _current_strategy,       \* MapState._current_strategy
  _active_layers,          \* MapState._active_layers
  _viewport_bounds,        \* MapState._viewport_bounds
  _additional_params,      \* MapState._additional_params
  cache_valid,             \* CacheObserver.cache_valid
  current_scores,          \* RecommendationObserver.current_scores
  current_strategy_name,   \* RecommendationObserver.current_strategy_name
  mlast,                   \* the last call on the MapState and what it did
  slast,                   \* a direct call of a scoring function: its input and result
  cache_manager,           \* a CacheManager: its directory, ttl_hours and version
  set_log,                 \* per cache entry, the last set and what removed it since
  clast,                   \* the last call on the CacheManager and what it returned
  recommendation_system,   \* None, or the RecommendationSystem's own fields
  rlast                    \* the last call on the RecommendationSystem

mvars ==
  <<_observers, _notifications_enabled, _current_strategy, _active_layers,
    _viewport_bounds, _additional_params, cache_valid, current_scores,
    current_strategy_name, mlast>>
cvars == <<cache_manager, set_log, clast>>
rvars == <<recommendation_system, rlast>>
ovars == <<mvars, slast, cvars, rvars>>
vars == <<avars, mvars, slast, cvars, rvars>>

\* The observers: the RecommendationObserver and the CacheObserver of the
\* analyzer, and a third Observer whose update may raise.
Observers == {"rec", "cache", "mock"}

\* rank(ascending=False, method='min')
\* (variant: method='max', tied scores share the highest rank of the ties)
RankMax(scores, i) == Cardinality({j \in DOMAIN scores : scores[j] >= scores[i]})
RankMin(scores, i) == 1 + Cardinality({j \in DOMAIN scores : scores[j] > scores[i]})

\* sort_values('score', ascending=False): rows of equal score stay in their
\* order, or come out reversed when reverse_ties.
InsertDesc(row, sorted, reverse_ties) ==
  LET before == {i \in DOMAIN sorted :
                   \/ sorted[i].score > row.score
                   \/ sorted[i].score = row.score /\ ~reverse_ties}
      n == Cardinality(before)
  IN SubSeq(sorted, 1, n) \o <<row>> \o SubSeq(sorted, n + 1, Len(sorted))

RECURSIVE SortDesc(_, _)
SortDesc(rows, reverse_ties) ==
  IF rows = <<>> THEN <<>>
  ELSE InsertDesc(rows[Len(rows)], SortDesc(SubSeq(rows, 1, Len(rows) - 1), reverse_ties),
                  reverse_ties)

\* (variant: the metric columns are overwritten with their weighted values)
ScoredRowsWeighted(df, key) ==
  LET scores == [i \in DOMAIN df.rows |->
                   calculate_final_score(key, [m \in MetricCols |-> df.rows[i][m]])]
  IN [i \in DOMAIN df.rows |->
        [c \in DOMAIN df.rows[i] \cup {"score", "rank"} |->
           IF c = "score" THEN scores[i]
           ELSE IF c = "rank" THEN RankMin(scores, i)
           ELSE IF c \in MetricCols
             THEN (df.rows[i][c] * _default_weights(key)[c]) \div 100
           ELSE df.rows[i][c]]]
\* The metrics rows with their score and rank: metrics_df.copy() with the
\* 'score' and 'rank' columns.
ScoredRows(df, key) ==
  LET scores == [i \in DOMAIN df.rows |->
                   calculate_final_score(key, [m \in MetricCols |-> df.rows[i][m]])]
  IN [i \in DOMAIN df.rows |->
        [c \in DOMAIN df.rows[i] \cup {"score", "rank"} |->
           IF c = "score" THEN scores[i]
           ELSE IF c = "rank" THEN RankMin(scores, i)
           ELSE df.rows[i][c]]]

\* (variant: the scores are those of the quality-of-life strategy)
ScoredTableOfQol(df, key, reverse_ties) ==
  DataFrame(df.columns \cup {"score", "rank"},
            SortDesc(ScoredRows(df, "quality_of_life"), reverse_ties))
\* The scored table of _handle_strategy_change: the scored rows sorted by
\* score.
ScoredTable(df, key, reverse_ties) ==
  DataFrame(df.columns \cup {"score", "rank"}, SortDesc(ScoredRows(df, key), reverse_ties))

\* What a notification works on: the analyzer's cache and call record, the
\* observers' fields, the observers invoked so far, those whose update raised
\* and whether an exception left notify.
NotifyStart ==
  [metrics_df |-> metrics_df,
   cache_dir |-> cache_dir, last |-> last, cache_valid |-> cache_valid,
   current_scores |-> current_scores,
   current_strategy_name |-> current_strategy_name,
   kwargs |-> <<>>, delivered |-> <<>>, raised |-> <<>>, propagated |-> FALSE]

\* (variant: no layer counts as affecting the metrics)
affected_layers_none == {}
\* the layers whose change affects the metrics
affected_layers == {"crimes", "bus_routes", "bus_stops", "metro", "parks", "services"}

\* CacheObserver.update and _invalidate_cache
CacheObserverUpdate(st, change_type, kwargs) ==
  LET visual_only == /\ change_type = "layers"
                     /\ kwargs.added \cap affected_layers = {}
                     /\ kwargs.removed \cap affected_layers = {}
  IN IF change_type \in {"layers", "param", "reset"} /\ ~visual_only
       THEN [st |-> [st EXCEPT !.cache_dir = invalidate_cache(config, st.cache_dir),
                               !.last = Call("invalidate_cache", FALSE, "ok", None),
                               !.cache_valid = FALSE],
             raised |-> FALSE]
       ELSE [st |-> st, raised |-> FALSE]

\* RecommendationObserver.update, _handle_strategy_change and _handle_reset;
\* the print of the top district raises on a table without rows.
RecommendationObserverUpdate(st, change_type, kwargs, reverse_ties) ==
  IF change_type = "strategy"
    THEN IF kwargs.new_strategy = None \/ st.metrics_df = None
           THEN [st |-> st, raised |-> FALSE]
           ELSE [st |-> [st EXCEPT
                           !.current_scores =
                              ScoredTable(st.metrics_df, kwargs.new_strategy.key,
                                          reverse_ties),
                           !.current_strategy_name =
                              Str(get_name(kwargs.new_strategy.key))],
                 raised |-> Len(st.metrics_df.rows) = 0]
  ELSE IF change_type = "reset"
    THEN [st |-> [st EXCEPT !.current_scores = None, !.current_strategy_name = None],
          raised |-> FALSE]
  ELSE [st |-> st, raised |-> FALSE]

\* observer.update(self, change_type, **kwargs) for the observer o; nd holds
\* the choices the call leaves open.
ObserverUpdate(o, st, change_type, kwargs, nd) ==
  CASE o = "rec" -> RecommendationObserverUpdate(st, change_type, kwargs, nd.reverse_ties)
    [] o = "cache" -> CacheObserverUpdate(st, change_type, kwargs)
    [] OTHER -> [st |-> st, raised |-> nd.raises]

\* (variant: no try/except around observer.update)
ExceptionLeavesNotifyUncaught(raised) == raised
\* except Exception: the exception of an update is printed, never re-raised
ExceptionLeavesNotify(raised) == FALSE

\* the loop of notify over self._observers
RECURSIVE NotifyLoop(_, _, _, _, _)
NotifyLoop(observers, st, change_type, kwargs, nd) ==
  IF observers = <<>> \/ st.propagated THEN st
  ELSE LET o == Head(observers)
           r == ObserverUpdate(o, st, change_type, kwargs, nd)
           after == [r.st EXCEPT
                       !.delivered = Append(st.delivered, o),
                       !.raised = IF r.raised THEN Append(st.raised, o) ELSE st.raised,
                       !.propagated = ExceptionLeavesNotify(r.raised)]
       IN NotifyLoop(Tail(observers), after, change_type, kwargs, nd)

\* (variant: notify does not look at the flag)
SkipsNotifyNever(enabled) == FALSE
\* if not self._notifications_enabled: return
SkipsNotify(enabled) == ~enabled

\* notify(change_type, **kwargs) with the analyzer and the observers as in start
NotifyFrom(start, change_type, kwargs, nd) ==
  IF SkipsNotify(_notifications_enabled) THEN [start EXCEPT !.kwargs = kwargs]
  ELSE NotifyLoop(_observers, [start EXCEPT !.kwargs = kwargs], change_type, kwargs, nd)

\* notify(change_type, **kwargs)
notify(change_type, kwargs, nd) == NotifyFrom(NotifyStart, change_type, kwargs, nd)

\* ------------------------------------------------------------- MapState operations
\* `mlast` records the call: the operation, its argument ("-" when it has
\* none), for attach and detach whether the observer was in the list, the
\* change type handed to notify
\* ("none" when notify was not called), the observers whose update was
\* invoked, in order, those whose update raised, the keyword arguments handed
\* to notify, and how the call ended.
MCall(op, arg, present, change_type, st) ==
  [op |-> op, arg |-> arg, present |-> present, change_type |-> change_type,
   kwargs |-> st.kwargs,
   delivered |-> st.delivered, raised |-> st.raised,
   returned |-> IF st.propagated THEN "raised" ELSE "normal"]

\* What a MapState call leaves in the analyzer's cache and in the observers.
EffectOf(op, arg, present, change_type, st) ==
  /\ cache_dir' = st.cache_dir
  /\ last' = st.last
  /\ cache_valid' = st.cache_valid
  /\ current_scores' = st.current_scores
  /\ current_strategy_name' = st.current_strategy_name
  /\ mlast' = MCall(op, arg, present, change_type, st)

\* A call made on the MapState itself: nothing else changes.
Effect(op, arg, present, change_type, st) ==
  /\ EffectOf(op, arg, present, change_type, st)
  /\ UNCHANGED <<config, districts_gdf, overlays, metrics_df, now, slast, cvars, rvars>>

\* the choices a notification leaves open: whether the third observer's
\* update raises, and the order of equal scores after the sort
NotifyChoices == [raises : BOOLEAN, reverse_ties : BOOLEAN]

\* (variant: attach appends without looking)
AttachedListAlways(observers, observer) == Append(observers, observer)
\* attach: if observer not in self._observers: self._observers.append(observer)
AttachedList(observers, observer) ==
  IF observer \in Range(observers) THEN observers ELSE Append(observers, observer)

\* (variant: detach leaves the list as it is)
DetachedListKept(observers, observer) == observers
\* detach: if observer in self._observers: self._observers.remove(observer)
DetachedList(observers, observer) ==
  IF observer \notin Range(observers) THEN observers
  ELSE LET i == CHOOSE k \in DOMAIN observers :
                  /\ observers[k] = observer
                  /\ \A j \in 1..(k - 1) : observers[j] # observer
       IN SubSeq(observers, 1, i - 1) \o SubSeq(observers, i + 1, Len(observers))

attach(observer) ==
  /\ _observers' = AttachedList(_observers, observer)
  /\ Effect("attach", observer, observer \in Range(_observers), "none", NotifyStart)
  /\ UNCHANGED <<_notifications_enabled, _current_strategy, _active_layers,
                 _viewport_bounds, _additional_params>>

detach(observer) ==
  /\ _observers' = DetachedList(_observers, observer)
  /\ Effect("detach", observer, observer \in Range(_observers), "none", NotifyStart)
  /\ UNCHANGED <<_notifications_enabled, _current_strategy, _active_layers,
                 _viewport_bounds, _additional_params>>

disable_notifications ==
  /\ _notifications_enabled' = FALSE
  /\ Effect("disable_notifications", "-", FALSE, "none", NotifyStart)
  /\ UNCHANGED <<_observers, _current_strategy, _active_layers, _viewport_bounds,
                 _additional_params>>

enable_notifications ==
  /\ _notifications_enabled' = TRUE
  /\ Effect("enable_notifications", "-", FALSE, "none", NotifyStart)
  /\ UNCHANGED <<_observers, _current_strategy, _active_layers, _viewport_bounds,
                 _additional_params>>

\* set_strategy(strategy), strategy a BaseStrategy object
SetStrategyFrom(start, strategy, nd) ==
  /\ _current_strategy' = strategy
  /\ EffectOf("set_strategy", strategy, FALSE, "strategy",
              NotifyFrom(start, "strategy",
                         [old_strategy |-> _current_strategy, new_strategy |-> strategy],
                         nd))
  /\ UNCHANGED <<_observers, _notifications_enabled, _active_layers, _viewport_bounds,
                 _additional_params>>

set_strategy(strategy, nd) ==
  /\ SetStrategyFrom(NotifyStart, strategy, nd)
  /\ UNCHANGED <<config, districts_gdf, overlays, metrics_df, now, slast, cvars, rvars>>

\* (variant: every call of set_active_layers counts as a change)
LayersChangedAlways(added, removed) == TRUE
\* if added or removed:
LayersChanged(added, removed) == added # {} \/ removed # {}

set_active_layers(layers, nd) ==
  LET old_layers == _active_layers
      added == layers \ old_layers
      removed == old_layers \ layers
  IN /\ _active_layers' = layers
     /\ IF LayersChanged(added, removed)
          THEN Effect("set_active_layers", layers, FALSE, "layers",
                      notify("layers",
                             [old_layers |-> old_layers, new_layers |-> layers,
                              added |-> added, removed |-> removed], nd))
          ELSE Effect("set_active_layers", layers, FALSE, "none", NotifyStart)
     /\ UNCHANGED <<_observers, _notifications_enabled, _current_strategy,
                    _viewport_bounds, _additional_params>>

toggle_layer(layer_name, nd) ==
  LET toggled == IF layer_name \in _active_layers
                   THEN _active_layers \ {layer_name}
                   ELSE _active_layers \cup {layer_name}
  IN /\ _active_layers' = toggled
     /\ Effect("toggle_layer", layer_name, FALSE, "layer_toggle",
               notify("layer_toggle",
                      [layer_name |-> layer_name, is_active |-> layer_name \in toggled], nd))
     /\ UNCHANGED <<_observers, _notifications_enabled, _current_strategy,
                    _viewport_bounds, _additional_params>>

\* bounds are in thousandths of a degree
Abs(x) == IF x < 0 THEN -x ELSE x
threshold == 10
\* (variant: every new viewport counts as a significant change)
_bounds_changed_always(old_bounds, new_bounds) == TRUE
_bounds_changed_significantly(old_bounds, new_bounds) ==
  IF old_bounds = None THEN TRUE
  ELSE \E key \in {"north", "south", "east", "west"} :
         Abs(Get(old_bounds, key, 0) - Get(new_bounds, key, 0)) > threshold

set_viewport_bounds(bounds, nd) ==
  LET old_bounds == _viewport_bounds
  IN /\ _viewport_bounds' = bounds
     /\ IF _bounds_changed_significantly(old_bounds, bounds)
          THEN Effect("set_viewport_bounds", bounds, FALSE, "viewport",
                      notify("viewport",
                             [old_bounds |-> old_bounds, new_bounds |-> bounds], nd))
          ELSE Effect("set_viewport_bounds", bounds, FALSE, "none", NotifyStart)
     /\ UNCHANGED <<_observers, _notifications_enabled, _current_strategy,
                    _active_layers, _additional_params>>

\* parameter values are wrapped so that they compare with None
Value(v) == [type |-> "int", value |-> v]
set_param(key, value, nd) ==
  LET old_value == Get(_additional_params, key, None)
  IN /\ _additional_params' =
          [k \in DOMAIN _additional_params \cup {key} |->
             IF k = key THEN value ELSE _additional_params[k]]
     /\ IF old_value # value
          THEN Effect("set_param", <<key, value>>, FALSE, "param",
                      notify("param",
                             [param_name |-> key, old_value |-> old_value,
                              new_value |-> value], nd))
          ELSE Effect("set_param", <<key, value>>, FALSE, "none", NotifyStart)
     /\ UNCHANGED <<_observers, _notifications_enabled, _current_strategy,
                    _active_layers, _viewport_bounds>>

reset(nd) ==
  /\ _current_strategy' = None
  /\ _active_layers' = {}
  /\ _viewport_bounds' = None
  /\ _additional_params' = <<>>
  /\ Effect("reset", "-", FALSE, "reset", notify("reset", <<>>, nd))
  /\ UNCHANGED <<_observers, _notifications_enabled>>

\* MapState.__init__, and the observers as their constructors leave them
MapStateInit ==
  /\ _observers = <<>>
  /\ _notifications_enabled = TRUE
  /\ _current_strategy = None
  /\ _active_layers = {}
  /\ _viewport_bounds = None
  /\ _additional_params = <<>>
  /\ cache_valid = TRUE
  /\ current_scores = None
  /\ current_strategy_name = None
  /\ mlast = [op |-> "__init__", arg |-> "-", present |-> FALSE, change_type |-> "none",
              kwargs |-> <<>>, delivered |-> <<>>, raised |-> <<>>, returned |-> "normal"]

\* The values a MapState may be driven with.
Quito == [north |-> -100, south |-> -300, east |-> -78400, west |-> -78600]

\* the choices of a notification that computes no scores
RaiseChoices == [raises : BOOLEAN, reverse_ties : {FALSE}]

\* ------------------------------------------------------------- CacheManager
\* A params dict is given by the set of its items: json.dumps(params,
\* sort_keys=True) yields one string per set of items.  The MD5 digest of
\* that string stands for the string itself.  Stored data are small integers,
\* a validator is given by the data it accepts.
Validator(accepted) == [type |-> "function", accepted |-> accepted]
Bool(b) == [type |-> "bool", value |-> b]

\* if params:
Truthy(params) == params # None /\ params.value # {}

\* (variant: the params do not enter the key)
_generate_key_without_params(identifier, params) == <<identifier>>
\* _generate_key: the digest of identifier, or of identifier_<params as JSON>
_generate_key(identifier, params) ==
  IF Truthy(params) THEN <<identifier, params.value>> ELSE <<identifier>>

\* _get_cache_path: cache_dir / cache_<key>.pkl
_get_cache_path(key) == <<"cache", key, "pkl">>

\* The log keeps, per (identifier, params) that was set, the data, time and
\* version of the last set and what removed its file since ("no" while it is
\* there); what a removed entry held is kept when a get or cleanup_expired
\* removed it.
RemovedBy(entry, op) ==
  IF op \in {"get", "cleanup_expired"} THEN [entry EXCEPT !.removed = op]
  ELSE [removed |-> op]
\* the entries of the log whose file is among paths are marked as removed by op
Removed(log, paths, op) ==
  [e \in DOMAIN log |->
     IF _get_cache_path(_generate_key(e[1], e[2])) \in paths /\ log[e].removed = "no"
       THEN RemovedBy(log[e], op)
       ELSE log[e]]

CMCall(op, identifier, params, validator, ret) ==
  [op |-> op, identifier |-> identifier, params |-> params, validator |-> validator,
   ret |-> ret]

\* CacheManager.__init__ over the same directory
CacheManagerInit(ttl_hours, version) ==
  /\ cache_manager' = [cache_manager EXCEPT !.ttl_hours = ttl_hours, !.version = version]
  /\ clast' = CMCall("__init__", "-", None, None, None)
  /\ UNCHANGED <<set_log, avars, mvars, slast, rvars>>

\* CacheManager.set(identifier, data, params)
set(identifier, data, params) ==
  LET cache_path == _get_cache_path(_generate_key(identifier, params))
      cache_obj == [data |-> data, timestamp |-> now, version |-> cache_manager.version,
                    identifier |-> identifier, params |-> params, metadata |-> {}]
  IN /\ cache_manager' =
          [cache_manager EXCEPT !.files = WriteFile(@, cache_path, cache_obj)]
     /\ set_log' = WriteFile(Removed(set_log, {cache_path}, "set"),
                             <<identifier, params>>,
                             [data |-> data, timestamp |-> now,
                              version |-> cache_manager.version, removed |-> "no"])
     /\ clast' = CMCall("set", identifier, params, None, Bool(TRUE))
     /\ UNCHANGED <<avars, mvars, slast, rvars>>

\* CacheManager.get(identifier, params, validator)
get(identifier, params, validator) ==
  LET cache_path == _get_cache_path(_generate_key(identifier, params))
      cache_obj == cache_manager.files[cache_path]
      age == now - cache_obj.timestamp
      rejected ==
        \/ cache_obj.version # cache_manager.version
        \/ age > cache_manager.ttl_hours
        \/ validator # None /\ cache_obj.data \notin validator.accepted
  IN IF cache_path \notin DOMAIN cache_manager.files
       THEN /\ clast' = CMCall("get", identifier, params, validator, None)
            /\ UNCHANGED <<cache_manager, set_log, avars, mvars, slast, rvars>>
     ELSE IF rejected
       THEN /\ cache_manager' = [cache_manager EXCEPT !.files = Unlink(@, cache_path)]
            /\ set_log' = Removed(set_log, {cache_path}, "get")
            /\ clast' = CMCall("get", identifier, params, validator, None)
            /\ UNCHANGED <<avars, mvars, slast, rvars>>
     ELSE /\ clast' = CMCall("get", identifier, params, validator, Value(cache_obj.data))
          /\ UNCHANGED <<cache_manager, set_log, avars, mvars, slast, rvars>>

\* CacheManager.invalidate(identifier, params)
invalidate(identifier, params) ==
  LET cache_path == _get_cache_path(_generate_key(identifier, params))
      exists == cache_path \in DOMAIN cache_manager.files
  IN /\ cache_manager' =
          [cache_manager EXCEPT !.files = IF exists THEN Unlink(@, cache_path) ELSE @]
     /\ set_log' = Removed(set_log, {cache_path}, "invalidate")
     /\ clast' = CMCall("invalidate", identifier, params, None, Bool(exists))
     /\ UNCHANGED <<avars, mvars, slast, rvars>>

\* CacheManager.clear_all()
clear_all ==
  /\ cache_manager' = [cache_manager EXCEPT !.files = <<>>]
  /\ set_log' = Removed(set_log, DOMAIN cache_manager.files, "clear_all")
  /\ clast' = CMCall("clear_all", "-", None, None,
                     Value(Cardinality(DOMAIN cache_manager.files)))
  /\ UNCHANGED <<avars, mvars, slast, rvars>>

\* CacheManager.cleanup_expired(): the files whose mtime is older than the TTL
cleanup_expired ==
  LET expired == {f \in DOMAIN cache_manager.files :
                    now - cache_manager.files[f].timestamp > cache_manager.ttl_hours}
  IN /\ cache_manager' =
          [cache_manager EXCEPT
             !.files = [f \in DOMAIN @ \ expired |-> @[f]]]
     /\ set_log' = Removed(set_log, expired, "cleanup_expired")
     /\ clast' = CMCall("cleanup_expired", "-", None, None, Value(Cardinality(expired)))
     /\ UNCHANGED <<avars, mvars, slast, rvars>>

\* ------------------------------------------------------------- RecommendationSystem
\* `recommendation_system` holds the facade's own fields: current_strategy_name
\* and metrics_df; its analyzer, MapState and observers are the ones above.
\* `rlast` records the last call on the facade, what it returned, and n, which
\* alternates between 0 and 1 with every call.
RCall(op, arg, ret) == [op |-> op, arg |-> arg, ret |-> ret, n |-> 1 - rlast.n]

\* (variant: the tourist strategy is missing from self.strategies)
NotInStrategiesButTourist(strategy_name) == strategy_name \notin Strategies \ {"tourist"}
\* if strategy_name not in self.strategies:
NotInStrategies(strategy_name) == strategy_name \notin Strategies

\* RecommendationSystem.set_strategy(strategy_name)
system_set_strategy(strategy_name, nd) ==
  IF NotInStrategies(strategy_name)
    THEN /\ rlast' = RCall("set_strategy", strategy_name, Bool(FALSE))
         /\ UNCHANGED <<avars, mvars, slast, cvars, recommendation_system>>
    ELSE /\ SetStrategyFrom(NotifyStart, Strategy(strategy_name), nd)
         /\ recommendation_system' =
              [recommendation_system EXCEPT !.current_strategy_name = Str(strategy_name)]
         /\ rlast' = RCall("set_strategy", strategy_name, Bool(TRUE))
         /\ UNCHANGED <<config, districts_gdf, overlays, metrics_df, now, slast, cvars>>

\* What analyze_all_districts(force_refresh) returns and leaves in the
\* analyzer, as a value.
Analyzed(force_refresh) ==
  LET try_cache == ~force_refresh /\ config.cache_enabled
      read == get_cached_metrics(config, cache_dir, now)
      dir_read == IF try_cache /\ read.unlink
                    THEN Unlink(cache_dir, _get_cache_filepath(config))
                    ELSE cache_dir
      computed == ComputeMetrics(districts_gdf.ids, config, overlays)
  IN IF try_cache /\ read.ret # None
       THEN [outcome |-> "cached", metrics_df |-> read.ret, cache_dir |-> cache_dir,
             last |-> AnalyzeCall(force_refresh, "cached")]
     ELSE IF districts_gdf = None
       THEN [outcome |-> "ValueError", metrics_df |-> metrics_df, cache_dir |-> dir_read,
             last |-> AnalyzeCall(force_refresh, "ValueError")]
     ELSE [outcome |-> "computed", metrics_df |-> computed,
           cache_dir |-> IF config.cache_enabled
                           THEN _save_to_cache(config, dir_read, computed, now)
                           ELSE dir_read,
           last |-> AnalyzeCall(force_refresh, "computed")]

\* (variant: refresh_analysis passes force_refresh=False)
refresh_without_force == FALSE
\* the force_refresh argument of refresh_analysis
refresh_force_refresh == TRUE

\* RecommendationSystem.refresh_analysis(); a ValueError of the analyzer leaves
\* the call before self.metrics_df is assigned.
refresh_analysis(nd) ==
  LET a == Analyzed(refresh_force_refresh)
      start == [NotifyStart EXCEPT !.metrics_df = a.metrics_df,
                                   !.cache_dir = a.cache_dir, !.last = a.last]
  IN IF a.outcome = "ValueError"
       THEN /\ cache_dir' = a.cache_dir
            /\ last' = a.last
            /\ rlast' = RCall("refresh_analysis", "-", [type |-> "ValueError"])
            /\ UNCHANGED <<config, districts_gdf, overlays, metrics_df, now, mvars,
                           slast, cvars, recommendation_system>>
       ELSE /\ metrics_df' = a.metrics_df
            /\ recommendation_system' =
                 [recommendation_system EXCEPT !.metrics_df = a.metrics_df]
            /\ IF recommendation_system.current_strategy_name # None
                 THEN SetStrategyFrom(start,
                                      Strategy(recommendation_system.current_strategy_name.value),
                                      nd)
                 ELSE /\ cache_dir' = a.cache_dir
                      /\ last' = a.last
                      /\ UNCHANGED mvars
            /\ rlast' = RCall("refresh_analysis", "-", None)
            /\ UNCHANGED <<config, districts_gdf, overlays, now, slast, cvars>>

\* RecommendationSystem.invalidate_cache()
system_invalidate_cache ==
  /\ cache_dir' = invalidate_cache(config, cache_dir)
  /\ last' = Call("invalidate_cache", FALSE, "ok", None)
  /\ rlast' = RCall("invalidate_cache", "-", None)
  /\ UNCHANGED <<config, districts_gdf, overlays, metrics_df, now, mvars, slast, cvars,
                 recommendation_system>>

\* ------------------------------------------------------------- direct strategy calls
\* `slast` holds the strategy and the metrics dict of a direct call, which
\* method was called ("input" before the call, "none" when no call is
\* considered) and what it returned.
NoCacheManager ==
  /\ cache_manager = [files |-> <<>>, ttl_hours |-> TtlHours, version |-> CurrentVersion]
  /\ set_log = <<>>
  /\ clast = [op |-> "none"]
NoRecommendationSystem ==
  /\ recommendation_system = None
  /\ rlast = [op |-> "none"]

NoStrategyCall ==
  [op |-> "none", key |-> "quality_of_life", metrics |-> <<>>, result |-> 0]

\* strategy.calculate_score(metrics)
CalculateScore ==
  /\ slast.op = "input"
  /\ slast' = [slast EXCEPT !.op = "calculate_score",
                            !.result = calculate_score(slast.key, slast.metrics)]
  /\ UNCHANGED <<avars, mvars, cvars, rvars>>

\* strategy.calculate_final_score(metrics)
CalculateFinalScore ==
  /\ slast.op = "input"
  /\ slast' = [slast EXCEPT !.op = "calculate_final_score",
                            !.result = calculate_final_score(slast.key, slast.metrics)]
  /\ UNCHANGED <<avars, mvars, cvars, rvars>>

\* calculate_transport_score(district_polygon, bus_stops_gdf, bus_routes_gdf,
\* metro_stations_gdf, metro_line_gdf) for the polygon of district d and the
\* layers that ov marks as given and not empty
CalculateTransportScore ==
  /\ slast.op = "transport_input"
  /\ slast' = [slast EXCEPT !.op = "calculate_transport_score",
                            !.result = calculate_transport_score(slast.d, slast.ov)]
  /\ UNCHANGED <<avars, mvars, cvars, rvars>>

\* attach and detach of every observer
ObserverListNext ==
  \/ \E observer \in Observers : attach(observer)
  \/ \E observer \in Observers : detach(observer)

\* The notification switch and the setters over the given values.
SettersNext(strategies, layer_names, viewports, params) ==
  \/ disable_notifications
  \/ enable_notifications
  \/ \E strategy \in strategies, nd \in NotifyChoices : set_strategy(strategy, nd)
  \/ \E layers \in SUBSET layer_names, nd \in RaiseChoices : set_active_layers(layers, nd)
  \/ \E layer_name \in layer_names, nd \in RaiseChoices : toggle_layer(layer_name, nd)
  \/ \E bounds \in viewports, nd \in RaiseChoices : set_viewport_bounds(bounds, nd)
  \/ \E p \in params, nd \in RaiseChoices : set_param(p[1], p[2], nd)
  \/ \E nd \in RaiseChoices : reset(nd)

\* Every operation of the MapState.
MapStateNext(strategies, layer_names, viewports, params) ==
  \/ ObserverListNext
  \/ SettersNext(strategies, layer_names, viewports, params)

\* ------------------------------------------------------------- specifications
AnalyzerInit ==
  /\ config \in Configs
  /\ districts_gdf = None
  /\ overlays = NoOverlays
  /\ metrics_df = None
  /\ cache_dir = <<>>
  /\ now = 0
  /\ last = [op |-> "__init__", force |-> FALSE, outcome |-> "ok", ret |-> None,
             prev |-> "-", stale |-> FALSE]

Init == AnalyzerInit /\ MapStateInit /\ slast = NoStrategyCall /\ NoCacheManager /\ NoRecommendationSystem

\* load_data with every overlay available
LoadInputs ==
  {<<ids, all>> : ids \in DistrictCollections \cup {<<>>}, all \in {TRUE}}

\* The analyzer's own calls leave the MapState and the observers alone.
AnalyzerNext ==
  \/ \E cfg \in Configs : DistrictAnalyzerInit(cfg) /\ UNCHANGED ovars
  \/ \E i \in LoadInputs : load_data(i[1], i[2], i[2], i[2]) /\ UNCHANGED ovars
  \/ \E force_refresh \in BOOLEAN : analyze_all_districts(force_refresh) /\ UNCHANGED ovars
  \/ GetCachedMetrics /\ UNCHANGED ovars
  \/ InvalidateCache /\ UNCHANGED ovars
  \/ GetCacheInfo /\ UNCHANGED ovars
  \/ Tick /\ UNCHANGED ovars

EnvNext ==
  \E file \in ForeignFiles(_get_cache_filepath(config), now) :
    PlantFile(_get_cache_filepath(config), file) /\ UNCHANGED ovars

Next == AnalyzerNext \/ EnvNext

\* The analyzer alone over a cache directory nothing else writes to.
SpecOwn == Init /\ [][AnalyzerNext]_vars

\* The analyzer with foreign files appearing in its cache directory.
Spec == Init /\ [][Next]_vars

\* A MapState with its observers over an analyzer with the default
\* configuration, either new or with the districts loaded and analysed with
\* force_refresh=True; the MapState is driven through every operation.
AllDistricts == [i \in 1..MaxDistricts |-> i]

AnalysedAnalyzer ==
  LET computed == ComputeMetrics(AllDistricts, _default_config, AllOverlays)
  IN /\ config = _default_config
     /\ districts_gdf = GeoDataFrame(AllDistricts)
     /\ overlays = AllOverlays
     /\ metrics_df = computed
     /\ cache_dir = _save_to_cache(_default_config, <<>>, computed, 0)
     /\ now = 0
     /\ last = [op |-> "analyze_all_districts", force |-> TRUE, outcome |-> "computed",
                ret |-> None, prev |-> "-", stale |-> FALSE]

AnalysedInit == AnalysedAnalyzer /\ MapStateInit /\ slast = NoStrategyCall /\ NoCacheManager /\ NoRecommendationSystem

InitMapState == (Init /\ config = _default_config) \/ AnalysedInit

MapStateSystemNext ==
  MapStateNext({Strategy("quality_of_life")}, {"parks", "districts"}, {Quito},
               {<<"radius", Value(1)>>})

SpecMapState == InitMapState /\ [][MapStateSystemNext]_vars

\* A MapState to which the RecommendationObserver, a third observer and the
\* CacheObserver were attached, over the same two analyzers; the setters are
\* driven over two strategies, a metric and a visual layer, viewports that
\* differ by the threshold and by more, and a parameter that is None or 1.
ObservedInit ==
  /\ _observers = <<"rec", "mock", "cache">>
  /\ _notifications_enabled = TRUE
  /\ _current_strategy = None
  /\ _active_layers = {}
  /\ _viewport_bounds = None
  /\ _additional_params = <<>>
  /\ cache_valid = TRUE
  /\ current_scores = None
  /\ current_strategy_name = None
  /\ mlast = [op |-> "attach", arg |-> "cache", present |-> FALSE, change_type |-> "none",
              kwargs |-> <<>>, delivered |-> <<>>, raised |-> <<>>, returned |-> "normal"]

InitSetters ==
  /\ (AnalyzerInit /\ config = _default_config) \/ AnalysedAnalyzer
  /\ ObservedInit
  /\ slast = NoStrategyCall /\ NoCacheManager /\ NoRecommendationSystem

ViewportInputs ==
  {Quito, [Quito EXCEPT !.north = Quito.north + threshold],
   [Quito EXCEPT !.north = Quito.north + threshold + 1]}

SettersSystemNext ==
  SettersNext({Strategy("quality_of_life"), Strategy("tourist")}, {"parks", "districts"},
              ViewportInputs, {<<"radius", None>>, <<"radius", Value(1)>>})

SpecSetters == InitSetters /\ [][SettersSystemNext]_vars

\* Direct calls of calculate_score and calculate_final_score: each strategy
\* on every dict that gives some of the four metrics a value below, between
\* and above the penalty and bonus thresholds, or NaN.
MetricValues == {NaN, 0, 290, 650, 850, 1000}
MetricDicts == UNION {[ms -> MetricValues] : ms \in SUBSET MetricCols}

InitStrategy ==
  /\ AnalyzerInit /\ config = _default_config
  /\ MapStateInit
  /\ slast \in {[op |-> "input", key |-> key, metrics |-> metrics, result |-> 0] :
                  key \in Strategies, metrics \in MetricDicts}
  /\ NoCacheManager /\ NoRecommendationSystem

StrategyNext == CalculateScore \/ CalculateFinalScore

SpecStrategy == InitStrategy /\ [][StrategyNext]_vars

\* Direct calls of calculate_transport_score: the polygons of the three
\* districts and an invalid polygon, against every choice of transport
\* layers that are given and not empty.
Polygons == 1..4
TransportLayers == {"bus_stops", "bus_routes", "metro_stations", "metro_line"}
LayerChoices ==
  {[k \in DOMAIN NoOverlays |-> k \in given] : given \in SUBSET TransportLayers}

InitTransport ==
  /\ AnalyzerInit /\ config = _default_config
  /\ MapStateInit
  /\ slast \in {[op |-> "transport_input", d |-> d, ov |-> ov, result |-> 0] :
                  d \in Polygons, ov \in LayerChoices}
  /\ NoCacheManager /\ NoRecommendationSystem

TransportNext == CalculateTransportScore

SpecTransport == InitTransport /\ [][TransportNext]_vars

\* The RecommendationObserver over metrics tables of one to three districts
\* that an analyzer took from its cache; the rows carry one of four metric
\* profiles each, so that scores tie; the strategy is changed and reset.
MetricProfiles ==
  {[safety |-> 800, transport |-> 700, green |-> 600, services |-> 500],
   [safety |-> 600, transport |-> 800, green |-> 400, services |-> 700],
   [safety |-> 400, transport |-> 500, green |-> 700, services |-> 600],
   [safety |-> 900, transport |-> 900, green |-> 700, services |-> 800]}

MetricsRow(d, profile) ==
  [c \in AllCols |->
     IF c \in MetricCols THEN profile[c]
     ELSE IF c = "district_name" THEN WorldDistrict(d).name
     ELSE d]

MetricsTables ==
  {DataFrame(AllCols, [d \in 1..n |-> MetricsRow(d, profiles[d])]) :
     n \in 1..3, profiles \in [1..3 -> MetricProfiles]}

InitRanking ==
  /\ config = _default_config
  /\ districts_gdf = None
  /\ overlays = NoOverlays
  /\ metrics_df \in MetricsTables
  /\ cache_dir = _save_to_cache(_default_config, <<>>, metrics_df, 0)
  /\ now = 0
  /\ last = [op |-> "analyze_all_districts", force |-> FALSE, outcome |-> "cached",
             ret |-> None, prev |-> "-", stale |-> FALSE]
  /\ ObservedInit
  /\ slast = NoStrategyCall /\ NoCacheManager /\ NoRecommendationSystem

RankingNext ==
  \/ \E key \in Strategies, nd \in NotifyChoices : set_strategy(Strategy(key), nd)
  \/ \E nd \in RaiseChoices : reset(nd)

SpecRanking == InitRanking /\ [][RankingNext]_vars

\* A CacheManager over an empty directory: entries of one identifier are set
\* under no params and under a one-item dict; they are read and invalidated
\* under these and under the empty dict, with and without a validator; the
\* directory is cleared, a manager of another version is constructed over it,
\* and time passes.
Identifiers == {"test"}
SetParamsInputs == {None, Dict({<<"param", "A">>})}
ParamsInputs == SetParamsInputs \cup {Dict({})}
DataInputs == {1, 2}
ValidatorInputs == {None, Validator({1})}
Versions == {CurrentVersion, "2.0.0"}

InitCacheManager ==
  /\ AnalyzerInit /\ config = _default_config
  /\ MapStateInit
  /\ slast = NoStrategyCall /\ NoCacheManager /\ NoRecommendationSystem

CacheManagerNext ==
  \/ \E version \in Versions : CacheManagerInit(TtlHours, version)
  \/ \E identifier \in Identifiers, data \in DataInputs, params \in SetParamsInputs :
       set(identifier, data, params)
  \/ \E identifier \in Identifiers, params \in ParamsInputs,
        validator \in ValidatorInputs :
       get(identifier, params, validator)
  \/ \E identifier \in Identifiers, params \in ParamsInputs :
       invalidate(identifier, params)
  \/ clear_all
  \/ cleanup_expired
  \/ Tick /\ UNCHANGED ovars

SpecCacheManager == InitCacheManager /\ [][CacheManagerNext]_vars

\* The RecommendationSystem after __init__: the analyzer has the default
\* configuration and every district and overlay loaded, the
\* RecommendationObserver and the CacheObserver are attached, and the first
\* analysis was computed, or served from the file an earlier run left in the
\* cache directory.  The facade is driven through its methods; its map_state
\* is driven through set_active_layers and reset, and its analyzer through
\* analyze_all_districts.
EarlierRunCaches == {<<>>, _save_to_cache(_default_config, <<>>, SampleDF, 0)}

InitFacade ==
  \E earlier \in EarlierRunCaches :
    LET read == get_cached_metrics(_default_config, earlier, 0)
        computed == ComputeMetrics(AllDistricts, _default_config, AllOverlays)
        cached == read.ret # None
        df == IF cached THEN read.ret ELSE computed
    IN /\ config = _default_config
       /\ districts_gdf = GeoDataFrame(AllDistricts)
       /\ overlays = AllOverlays
       /\ metrics_df = df
       /\ cache_dir = IF cached THEN earlier
                      ELSE _save_to_cache(_default_config, earlier, computed, 0)
       /\ now = 0
       /\ last = [op |-> "analyze_all_districts", force |-> FALSE,
                  outcome |-> IF cached THEN "cached" ELSE "computed",
                  ret |-> None, prev |-> "-", stale |-> FALSE]
       /\ _observers = <<"rec", "cache">>
       /\ _notifications_enabled = TRUE
       /\ _current_strategy = None
       /\ _active_layers = {}
       /\ _viewport_bounds = None
       /\ _additional_params = <<>>
       /\ cache_valid = TRUE
       /\ current_scores = None
       /\ current_strategy_name = None
       /\ mlast = [op |-> "attach", arg |-> "cache", present |-> FALSE,
                   change_type |-> "none", kwargs |-> <<>>, delivered |-> <<>>,
                   raised |-> <<>>, returned |-> "normal"]
       /\ slast = NoStrategyCall
       /\ NoCacheManager
       /\ recommendation_system = [current_strategy_name |-> None, metrics_df |-> df]
       /\ rlast = [op |-> "__init__", arg |-> "-", ret |-> None, n |-> 0]

\* the choices of a notification to the two observers of the facade
ScoreChoices == [raises : {FALSE}, reverse_ties : BOOLEAN]
\* a notification that scores nothing leaves no choice
NoChoices == [raises : {FALSE}, reverse_ties : {FALSE}]
StrategyNames == {"quality_of_life", "tourist", "invalid_strategy"}

FacadeNext ==
  \/ \E strategy_name \in StrategyNames, nd \in ScoreChoices :
       system_set_strategy(strategy_name, nd)
  \/ \E nd \in ScoreChoices : refresh_analysis(nd)
  \/ system_invalidate_cache
  \/ \E layers \in {{}, {"parks"}}, nd \in NoChoices : set_active_layers(layers, nd)
  \/ \E nd \in NoChoices : reset(nd)
  \/ analyze_all_districts(FALSE) /\ UNCHANGED ovars
  \/ Tick /\ UNCHANGED ovars

SpecFacade == InitFacade /\ [][FacadeNext]_vars

\* ------------------------------------------------------------- cache claims
CurrentFile == _get_cache_filepath(config)
MetricColumns(df) == [i \in DOMAIN df.rows |-> [c \in MetricCols |-> df.rows[i][c]]]

\* The current-configuration file exists and holds a dict with the four
\* required keys, the current version, the current cache key, a timestamp not
\* older than the TTL and a table with the required columns.
ValidEntry ==
  /\ CurrentFile \in DOMAIN cache_dir
  /\ cache_dir[CurrentFile].kind = "dict"
  /\ RequiredKeys \subseteq DOMAIN cache_dir[CurrentFile].data
  /\ cache_dir[CurrentFile].data.version = "1.0.0"
  /\ cache_dir[CurrentFile].data.config_hash = _generate_cache_key(config)
  /\ cache_dir[CurrentFile].data.timestamp.iso
  /\ now - cache_dir[CurrentFile].data.timestamp.t <= config.ttl_hours
  /\ cache_dir[CurrentFile].data.metrics_df.type = "DataFrame"
  /\ RequiredCols \subseteq cache_dir[CurrentFile].data.metrics_df.columns

\* C1: get_cached_metrics returns the stored table exactly when the
\* current-configuration file exists and is a valid entry (dict, required
\* keys, version, config hash, age within the TTL, required columns); in every
\* other case it returns None.
C1_HitIffValidEntry ==
  [][GetCachedMetrics =>
       /\ (last'.outcome = "hit") <=> ValidEntry
       /\ ValidEntry => last'.ret = cache_dir[CurrentFile].data.metrics_df
       /\ ~ValidEntry => last'.ret = None]_avars
\* a read that hit an entry whose age equals the TTL
C1_Witness ==
  /\ last.op = "get_cached_metrics" /\ last.outcome = "hit"
  /\ last.ret.type = "DataFrame"
  /\ CurrentFile \in DOMAIN cache_dir
  /\ now - cache_dir[CurrentFile].data.timestamp.t = config.ttl_hours

\* C2: right after a completed analyze_all_districts(force_refresh=True) with
\* the cache enabled, and while the entry is within its TTL,
\* analyze_all_districts(force_refresh=False) is served from the cache and
\* returns the same safety/transport/green/services columns.
C2_RoundTrip ==
  [][(/\ last.op = "analyze_all_districts" /\ last.force /\ last.outcome = "computed"
      /\ config.cache_enabled
      /\ (CurrentFile \in DOMAIN cache_dir =>
            now - cache_dir[CurrentFile].data.timestamp.t <= config.ttl_hours)
      /\ analyze_all_districts(FALSE))
     => /\ last'.outcome = "cached"
        /\ MetricColumns(metrics_df') = MetricColumns(metrics_df)]_avars
\* a non-forced analysis answered from the cache right after a forced one
C2_Witness ==
  /\ last.op = "analyze_all_districts" /\ ~last.force
  /\ last.prev = "refresh" /\ last.outcome = "cached"
  /\ Len(metrics_df.rows) > 1

\* C3: analyze_all_districts(force_refresh=False) never answers with a table
\* stored under other values of safety_inversion, ideal_green_coverage or
\* min_park_area: a table served from the cache is one that the current
\* configuration computes.
C3_NoStaleConfig ==
  [][(analyze_all_districts(FALSE) /\ last'.outcome = "cached")
     => \E ds \in DistrictCollections :
          metrics_df' = ComputeMetrics(ds, config, AllOverlays)]_avars
\* a non-forced analysis that found only a file of another configuration hash
\* and recomputed
C3_Witness ==
  /\ last.op = "analyze_all_districts" /\ ~last.force
  /\ last.stale /\ last.outcome = "computed"
  /\ config.cache_enabled

\* C4: with nothing else writing to the cache directory, it never holds more
\* than one cache file, and right after an analysis wrote the cache it holds
\* exactly the file of the current configuration hash.
C4_OneCacheFile ==
  /\ Cardinality(DOMAIN cache_dir) <= 1
  /\ (last.op = "analyze_all_districts" /\ last.outcome = "computed"
        /\ config.cache_enabled)
     => DOMAIN cache_dir = {_generate_cache_key(config)}
\* a cache write that found the file of an earlier configuration hash
C4_Witness ==
  /\ last.op = "analyze_all_districts" /\ last.outcome = "computed"
  /\ last.stale /\ config.cache_enabled
  /\ DOMAIN cache_dir = {CurrentFile}

\* C5: invalidate_cache removes the current-configuration file if it exists
\* and changes nothing else, it does not raise, get_cache_info then reports
\* exists = False, and an analyze_all_districts(force_refresh=False) that
\* follows it is not served from the cache.
C5_Invalidate ==
  /\ [][InvalidateCache =>
          /\ last'.outcome = "ok"
          /\ DOMAIN cache_dir' = DOMAIN cache_dir \ {CurrentFile}
          /\ \A k \in DOMAIN cache_dir' : cache_dir'[k] = cache_dir[k]
          /\ ~get_cache_info(config', cache_dir', now').exists]_avars
  /\ [][(last.op = "invalidate_cache" /\ analyze_all_districts(FALSE))
         => last'.outcome # "cached"]_avars
\* a non-forced analysis that recomputed right after an invalidation
C5_Witness ==
  /\ last.op = "analyze_all_districts" /\ ~last.force
  /\ last.prev = "invalidate" /\ last.outcome = "computed"
  /\ config.cache_enabled

\* C6 (as claimed): a read that finds a record that is not a dict, or a dict
\* without one of the required keys, misses and deletes the cache file.
C6_MalformedDeleted ==
  [][(/\ GetCachedMetrics
      /\ CurrentFile \in DOMAIN cache_dir
      /\ \/ cache_dir[CurrentFile].kind = "list"
         \/ /\ cache_dir[CurrentFile].kind = "dict"
            /\ ~(RequiredKeys \subseteq DOMAIN cache_dir[CurrentFile].data))
     => /\ last'.outcome = "miss"
        /\ CurrentFile \notin DOMAIN cache_dir']_avars

\* C7 (as claimed): analyze_all_districts on an analyzer without districts
\* ends with the ValueError, whatever force_refresh and the cache hold.
C7_NoDistrictsRaises ==
  [][(districts_gdf = None /\ \E f \in BOOLEAN : analyze_all_districts(f))
     => last'.outcome = "ValueError"]_avars

\* ------------------------------------------------------------- observer claims
Count(observers, o) == Cardinality({i \in DOMAIN observers : observers[i] = o})
\* the last call handed a change to notify while notifications were enabled
Notified == mlast.change_type # "none" /\ _notifications_enabled
\* everything of the MapState and the observers but the call record
MapStateFields ==
  <<_observers, _notifications_enabled, _current_strategy, _active_layers,
    _viewport_bounds, _additional_params, cache_valid, current_scores,
    current_strategy_name>>

\* C8: after any sequence of calls the observer list holds each observer at
\* most once, and attach of an observer that is already in the list leaves
\* the list unchanged in content and order.
C8_AttachIdempotent ==
  /\ [](\A o \in Observers : Count(_observers, o) <= 1)
  /\ [][mlast'.op = "attach" /\ mlast'.arg \in Range(_observers)
          => _observers' = _observers]_vars

\* an observer is attached again while it heads a list of three
C8_Witness ==
  /\ mlast.op = "attach"
  /\ mlast.present
  /\ Len(_observers) = 3
  /\ mlast.arg = _observers[1]

\* C9: detach(o) removes o; while o is not attached no change invokes its
\* update or touches its fields, and only attach(o) brings it back; every
\* notification reaches every observer still attached; detach of an observer
\* that is not attached changes nothing.
C9_DetachStops ==
  /\ [][\A o \in Observers :
          /\ (mlast'.op = "detach" /\ mlast'.arg = o => o \notin Range(_observers'))
          /\ (o \notin Range(_observers) => o \notin Range(mlast'.delivered))
          /\ (o \notin Range(_observers) /\ o \in Range(_observers')
                => mlast'.op = "attach" /\ mlast'.arg = o)]_vars
  /\ [][/\ ("rec" \notin Range(_observers)
              => UNCHANGED <<current_scores, current_strategy_name>>)
        /\ ("cache" \notin Range(_observers) => UNCHANGED cache_valid)]_vars
  /\ [](Notified => Range(_observers) \subseteq Range(mlast.delivered))
  /\ [][mlast'.op = "detach" /\ mlast'.arg \notin Range(_observers)
          => UNCHANGED <<avars, MapStateFields>>]_vars

\* the RecommendationObserver has scores from an earlier notification and is
\* detached; a strategy change is delivered to the two observers left
C9_Witness ==
  /\ "rec" \notin Range(_observers)
  /\ current_scores # None
  /\ mlast.op = "set_strategy"
  /\ _notifications_enabled
  /\ Len(mlast.delivered) = 2

\* C10: a notification invokes the update of every attached observer once, in
\* attachment order, also when an update raises; the observers after the
\* raising one act (a reset clears the scores and invalidates the cache), and
\* the setter returns normally.
C10_NotifyAllInOrder ==
  Notified =>
    /\ mlast.delivered = _observers
    /\ mlast.returned = "normal"
    /\ (mlast.change_type = "reset" /\ "cache" \in Range(_observers) => ~cache_valid)
    /\ (mlast.change_type = "reset" /\ "rec" \in Range(_observers)
          => current_scores = None)

\* the second of three observers raised on a reset and the third, the
\* CacheObserver, was still invoked
C10_Witness ==
  /\ mlast.op = "reset"
  /\ _observers = <<"rec", "mock", "cache">>
  /\ mlast.raised = <<"mock">>
  /\ mlast.delivered = _observers
  /\ ~cache_valid
  /\ mlast.returned = "normal"

\* ------------------------------------------------------------- setter claims
\* get_param(key): the stored value, None when the key is not there
get_param(params, key) == Get(params, key, None)

\* C11: set_active_layers with a set equal to the active layers and set_param
\* with a value equal to the stored one invoke no observer; a call that
\* changes the value invokes every attached observer once and hands it the
\* old and the new value.
C11_NotifyOnlyOnChange ==
  [][/\ (mlast'.op = "set_active_layers" /\ mlast'.arg = _active_layers
           => mlast'.delivered = <<>> /\ mlast'.change_type = "none")
     /\ (mlast'.op = "set_active_layers" /\ mlast'.arg # _active_layers
           /\ _notifications_enabled
           => /\ mlast'.delivered = _observers
              /\ mlast'.change_type = "layers"
              /\ mlast'.kwargs.old_layers = _active_layers
              /\ mlast'.kwargs.new_layers = mlast'.arg
              /\ _active_layers' = mlast'.arg)
     /\ (mlast'.op = "set_param"
           /\ mlast'.arg[2] = get_param(_additional_params, mlast'.arg[1])
           => mlast'.delivered = <<>> /\ mlast'.change_type = "none")
     /\ (mlast'.op = "set_param"
           /\ mlast'.arg[2] # get_param(_additional_params, mlast'.arg[1])
           /\ _notifications_enabled
           => /\ mlast'.delivered = _observers
              /\ mlast'.change_type = "param"
              /\ mlast'.kwargs.param_name = mlast'.arg[1]
              /\ mlast'.kwargs.old_value = get_param(_additional_params, mlast'.arg[1])
              /\ mlast'.kwargs.new_value = mlast'.arg[2]
              /\ get_param(_additional_params', mlast'.arg[1]) = mlast'.arg[2])]_vars

\* set_active_layers was called with the two layers that were active already,
\* with three observers attached and notifications enabled
C11_Witness ==
  /\ mlast.op = "set_active_layers"
  /\ mlast.arg = {"parks", "districts"}
  /\ mlast.change_type = "none"
  /\ mlast.delivered = <<>>
  /\ Len(_observers) = 3
  /\ _notifications_enabled

\* the state of a MapState on which reset has nothing to clear
EmptyState ==
  /\ _current_strategy = None
  /\ _active_layers = {}
  /\ _viewport_bounds = None
  /\ _additional_params = <<>>

\* C12: set_strategy with the strategy that is current already, and reset on
\* a state without strategy, layers, viewport and parameters, invoke no
\* observer.
C12_StrategyResetOnlyOnChange ==
  [][/\ (mlast'.op = "set_strategy" /\ mlast'.arg = _current_strategy
           => mlast'.delivered = <<>>)
     /\ (mlast'.op = "reset" /\ EmptyState => mlast'.delivered = <<>>)]_vars

\* C13: with notifications disabled a setter stores its value and no update
\* is invoked, the observers' fields and the cache stay as they are;
\* enable_notifications itself delivers nothing, and a change made after it
\* reaches every observer.
C13_DisabledNotifications ==
  /\ [](~_notifications_enabled => mlast.delivered = <<>>)
  /\ [][~_notifications_enabled
          => UNCHANGED <<cache_valid, current_scores, current_strategy_name, cache_dir>>]_vars
  /\ [][/\ (mlast'.op = "set_strategy" => _current_strategy' = mlast'.arg)
        /\ (mlast'.op = "set_active_layers" => _active_layers' = mlast'.arg)
        /\ (mlast'.op = "toggle_layer"
              => (mlast'.arg \in _active_layers') = (mlast'.arg \notin _active_layers))
        /\ (mlast'.op = "set_viewport_bounds" => _viewport_bounds' = mlast'.arg)
        /\ (mlast'.op = "set_param"
              => get_param(_additional_params', mlast'.arg[1]) = mlast'.arg[2])
        /\ (mlast'.op = "reset" => EmptyState')]_vars
  /\ [][mlast'.op = "enable_notifications"
          => /\ _notifications_enabled'
             /\ mlast'.delivered = <<>>
             /\ UNCHANGED <<cache_valid, current_scores, current_strategy_name,
                            cache_dir>>]_vars
  /\ [](Notified => mlast.delivered = _observers)

\* the metric layer was activated while notifications were disabled (the cache
\* is still valid), and a strategy change after enable_notifications reached
\* the three observers
C13_Witness ==
  /\ _notifications_enabled
  /\ "parks" \in _active_layers
  /\ cache_valid
  /\ mlast.op = "set_strategy"
  /\ mlast.delivered = <<"rec", "mock", "cache">>
  /\ current_scores # None

\* how far the bound `key` lies from its old place
Moved(old_bounds, new_bounds, key) == Abs(old_bounds[key] - new_bounds[key])
Sides == {"north", "south", "east", "west"}

\* C14: set_viewport_bounds always stores the new bounds; it notifies nobody
\* when every bound moved by less than 0.01 from the stored bounds, and sends
\* a 'viewport' notification when there were no bounds or some bound moved by
\* more than 0.01.
C14_ViewportEpsilon ==
  [][mlast'.op = "set_viewport_bounds" =>
       /\ _viewport_bounds' = mlast'.arg
       /\ (_viewport_bounds # None
             /\ (\A key \in Sides : Moved(_viewport_bounds, mlast'.arg, key) < 10)
             => mlast'.change_type = "none" /\ mlast'.delivered = <<>>)
       /\ ((_viewport_bounds = None
              \/ \E key \in Sides : Moved(_viewport_bounds, mlast'.arg, key) > 10)
             => /\ mlast'.change_type = "viewport"
                /\ mlast'.kwargs.new_bounds = mlast'.arg
                /\ (_notifications_enabled => mlast'.delivered = _observers))]_vars

\* the north bound moved by 0.011 and the three observers were notified
C14_Witness ==
  /\ mlast.op = "set_viewport_bounds"
  /\ mlast.change_type = "viewport"
  /\ mlast.kwargs.old_bounds = Quito
  /\ mlast.kwargs.new_bounds = [Quito EXCEPT !.north = Quito.north + 11]
  /\ _viewport_bounds = mlast.kwargs.new_bounds
  /\ mlast.delivered = <<"rec", "mock", "cache">>

\* ------------------------------------------------------------- cache observer claims
MetricLayers == {"crimes", "bus_routes", "bus_stops", "metro", "parks", "services"}
\* the CacheObserver is attached and the last call notified the observers
CacheObserverNotified == Notified /\ "cache" \in Range(_observers)

\* C15: on a 'layers' change the CacheObserver invalidates the analyzer's
\* cache and sets cache_valid to False when an added or removed layer is one
\* of crimes, bus_routes, bus_stops, metro, parks, services, and leaves the
\* cache, the analyzer and cache_valid alone otherwise.
C15_LayersInvalidate ==
  [][mlast'.change_type = "layers" /\ CacheObserverNotified' =>
       IF (mlast'.kwargs.added \cup mlast'.kwargs.removed) \cap MetricLayers # {}
         THEN /\ ~cache_valid'
              /\ CurrentFile \notin DOMAIN cache_dir'
              /\ last'.op = "invalidate_cache"
         ELSE UNCHANGED <<cache_valid, cache_dir, last>>]_vars

\* set_active_layers({'parks'}) invalidated the cache that the analysis had
\* written, and set_active_layers({'parks', 'districts'}) left things as
\* they were
C15_Witness ==
  /\ mlast.op = "set_active_layers"
  /\ mlast.change_type = "layers"
  /\ mlast.kwargs.old_layers = {"parks"}
  /\ mlast.kwargs.added = {"districts"}
  /\ "cache" \in Range(mlast.delivered)
  /\ ~cache_valid
  /\ metrics_df # None
  /\ cache_dir = <<>>

\* C16: a 'strategy', 'viewport' or 'param' notification leaves the
\* analyzer's cache file and the CacheObserver's cache_valid as they are.
C16_OtherChangesKeepCache ==
  [][mlast'.change_type \in {"strategy", "viewport", "param"}
       => UNCHANGED <<cache_dir, cache_valid>>]_vars

\* ------------------------------------------------------------- scoring claims
\* the RecommendationObserver is attached and the last call notified the observers
RecObserverNotified == Notified /\ "rec" \in Range(_observers)
RowMetrics(row) == [m \in MetricCols |-> row[m]]

\* C17: on a delivered 'strategy' change with a metrics table in the analyzer,
\* the RecommendationObserver's table has one row per metrics row with the
\* score of the new strategy on that row's metrics, and the strategy's name is
\* recorded; on 'reset' table and name become None; any other change leaves
\* them as they are.
C17_RecomputeOnStrategy ==
  [][/\ (mlast'.change_type = "strategy" /\ RecObserverNotified' /\ metrics_df # None
           => /\ current_scores' # None
              /\ Len(current_scores'.rows) = Len(metrics_df.rows)
              /\ \A i \in DOMAIN metrics_df.rows :
                   \E j \in DOMAIN current_scores'.rows :
                     /\ current_scores'.rows[j].district_id = metrics_df.rows[i].district_id
                     /\ current_scores'.rows[j].score =
                          calculate_final_score(mlast'.arg.key, RowMetrics(metrics_df.rows[i]))
              /\ current_strategy_name' = Str(get_name(mlast'.arg.key)))
     /\ (mlast'.change_type = "reset" /\ RecObserverNotified'
           => current_scores' = None /\ current_strategy_name' = None)
     /\ (mlast'.change_type \notin {"strategy", "reset"}
           => UNCHANGED <<current_scores, current_strategy_name>>)]_vars

\* the tourist strategy replaced the quality-of-life strategy and the table
\* of two districts was scored again
C17_Witness ==
  /\ mlast.op = "set_strategy"
  /\ mlast.kwargs.old_strategy = Strategy("quality_of_life")
  /\ mlast.arg = Strategy("tourist")
  /\ "rec" \in Range(mlast.delivered)
  /\ current_scores # None
  /\ Len(current_scores.rows) = MaxDistricts
  /\ current_strategy_name = Str("Turista/Visitante")

\* C18: set_strategy leaves the analyzer's metrics table as it is, and every
\* row of the scored table carries the column values of the metrics row of
\* its district; the scored table adds only the score and rank columns.
C18_StrategyKeepsMetrics ==
  [][mlast'.op = "set_strategy" =>
       /\ UNCHANGED metrics_df
       /\ (current_scores' # None /\ metrics_df # None =>
             /\ current_scores'.columns = metrics_df.columns \cup {"score", "rank"}
             /\ \A j \in DOMAIN current_scores'.rows :
                  \E i \in DOMAIN metrics_df.rows :
                    \A c \in metrics_df.columns :
                      current_scores'.rows[j][c] = metrics_df.rows[i][c])]_vars

\* a strategy change was scored over the analysed districts
C18_Witness ==
  /\ mlast.op = "set_strategy"
  /\ mlast.arg = Strategy("quality_of_life")
  /\ "rec" \in Range(mlast.delivered)
  /\ current_scores # None
  /\ metrics_df = ComputeMetrics(AllDistricts, _default_config, AllOverlays)

\* C19: in the scored table every rank is 1 plus the number of rows with a
\* strictly greater score, the rows come in non-increasing score, and the
\* first row has rank 1.
C19_RankAndOrder ==
  current_scores # None =>
    LET rows == current_scores.rows
    IN /\ \A i \in DOMAIN rows :
            rows[i].rank = 1 + Cardinality({j \in DOMAIN rows : rows[j].score > rows[i].score})
       /\ \A i, j \in DOMAIN rows : i < j => rows[i].score >= rows[j].score
       /\ (rows # <<>> => rows[1].rank = 1)

\* two districts tie for the best score and share rank 1, the third has rank 3
C19_Witness ==
  /\ current_scores # None
  /\ Len(current_scores.rows) = 3
  /\ current_scores.rows[1].score = current_scores.rows[2].score
  /\ current_scores.rows[1].rank = 1
  /\ current_scores.rows[2].rank = 1
  /\ current_scores.rows[3].score < current_scores.rows[2].score
  /\ current_scores.rows[3].rank = 3

\* the weight a strategy gives the metric m of a dict, 0 when the metric is
\* absent or NaN
AvailableWeight(key, metrics, m) ==
  IF m \in DOMAIN metrics /\ metrics[m] # NaN THEN _default_weights(key)[m] ELSE 0
WeightedValue(key, metrics, m) ==
  IF m \in DOMAIN metrics /\ metrics[m] # NaN
    THEN metrics[m] * _default_weights(key)[m] ELSE 0

\* C20: calculate_score is the sum of weight times value over the metrics
\* that are present and not NaN, divided by the sum of their weights (in
\* units of 10^-5, rounded down), and 0 when that sum of weights is 0.
C20_WeightNormalizedAverage ==
  slast.op = "calculate_score" =>
    LET num == WeightedValue(slast.key, slast.metrics, "safety")
                 + WeightedValue(slast.key, slast.metrics, "transport")
                 + WeightedValue(slast.key, slast.metrics, "green")
                 + WeightedValue(slast.key, slast.metrics, "services")
        den == AvailableWeight(slast.key, slast.metrics, "safety")
                 + AvailableWeight(slast.key, slast.metrics, "transport")
                 + AvailableWeight(slast.key, slast.metrics, "green")
                 + AvailableWeight(slast.key, slast.metrics, "services")
    IN IF den = 0 THEN slast.result = 0
       ELSE /\ slast.result * den <= num * 100
            /\ num * 100 < (slast.result + 1) * den

\* quality of life on a dict with NaN safety, transport 0.85 and no green:
\* the score is 0.85, the transport value alone
C20_Witness ==
  /\ slast.op = "calculate_score"
  /\ slast.key = "quality_of_life"
  /\ DOMAIN slast.metrics = {"safety", "transport"}
  /\ slast.metrics["safety"] = NaN
  /\ slast.metrics["transport"] = 850
  /\ slast.result = 85000

\* ------------------------------------------------------------- final score claims
One == 1000 * 1000 * 1000

\* C21: calculate_final_score is the bonus of the penalized base score,
\* clipped to [0, 1]: the penalty acts on calculate_score's result, the bonus
\* on the penalized score; for each strategy the result lies in [0, 1].
C21_FinalScore ==
  slast.op = "calculate_final_score" =>
    LET base == calculate_score(slast.key, slast.metrics)
        penalized == apply_penalties(slast.key, slast.metrics, base)
        with_bonus == apply_bonuses(slast.key, slast.metrics, penalized)
    IN /\ slast.result = Max(0, Min(One, with_bonus))
       /\ slast.result >= 0
       /\ slast.result <= One

\* tourist strategy, no safety value (penalty 0.9 on the default 0.5), the
\* other metrics 1.0 (bonus 1.15): 1.0 * 0.9 * 1.15 is clipped to 1.0, where
\* the bonus before the penalty would give 0.9
C21_Witness ==
  /\ slast.op = "calculate_final_score"
  /\ slast.key = "tourist"
  /\ slast.metrics = [m \in {"transport", "green", "services"} |-> 1000]
  /\ slast.result = One

\* the metrics table of the districts A, B, C (district_id 1, 2, 3)
ProfileA == [safety |-> 800, transport |-> 700, green |-> 600, services |-> 500]
ProfileB == [safety |-> 600, transport |-> 800, green |-> 400, services |-> 700]
ProfileC == [safety |-> 400, transport |-> 500, green |-> 700, services |-> 600]
TableABC ==
  DataFrame(AllCols, <<MetricsRow(1, ProfileA), MetricsRow(2, ProfileB),
                       MetricsRow(3, ProfileC)>>)
\* the table A, B, C was scored under the quality-of-life strategy
ScoredABC ==
  /\ metrics_df = TableABC
  /\ current_scores # None
  /\ current_strategy_name = Str(get_name("quality_of_life"))
\* the row of district d in the scored table has this raw score (in 10^-5),
\* the same final score (no penalty, no bonus) and this rank
ScoredAs(d, raw, rank) ==
  /\ calculate_score("quality_of_life", RowMetrics(metrics_df.rows[d])) = raw
  /\ \E j \in DOMAIN current_scores.rows :
       /\ current_scores.rows[j].district_id = d
       /\ current_scores.rows[j].score = raw * 10000
       /\ current_scores.rows[j].rank = rank

\* C22 as stated: under the quality-of-life strategy A, B, C have the raw
\* scores 0.725, 0.605, 0.525, no penalty or bonus, and the ranks 1, 2, 3.
C22_WorkedExample ==
  ScoredABC => /\ ScoredAs(1, 72500, 1)
               /\ ScoredAs(2, 60500, 2)
               /\ ScoredAs(3, 52500, 3)

\* C22 amended: under the quality-of-life strategy A, B, C have the raw
\* scores 0.715, 0.620, 0.510, no penalty or bonus is triggered, and the
\* final ranks are A 1, B 2, C 3.
C22_WorkedExampleAmended ==
  ScoredABC => /\ ScoredAs(1, 71500, 1)
               /\ ScoredAs(2, 62000, 2)
               /\ ScoredAs(3, 51000, 3)

\* set_strategy(quality of life) scored A, B, C into a table led by A
C22_Witness ==
  /\ ScoredABC
  /\ mlast.op = "set_strategy"
  /\ Len(current_scores.rows) = 3
  /\ current_scores.rows[1].district_id = 1
  /\ current_scores.rows[1].score = 715000000

\* ------------------------------------------------------------- toggle_layer claim
\* C27: toggle_layer of a metric-affecting layer (crimes, bus_routes,
\* bus_stops, metro, parks, services) makes the CacheObserver invalidate the
\* analyzer's cache and set cache_valid to False, as the set_active_layers
\* call with the same layers does; toggling a visual-only layer does not.
C27_ToggleInvalidates ==
  [][mlast'.op = "toggle_layer" /\ CacheObserverNotified' =>
       IF mlast'.arg \in MetricLayers
         THEN /\ ~cache_valid'
              /\ CurrentFile \notin DOMAIN cache_dir'
         ELSE UNCHANGED <<cache_valid, cache_dir>>]_vars

\* ------------------------------------------------------------- cache report claim
\* C29: get_cache_info changes nothing in the cache directory, and the
\* is_valid it reports is True exactly when get_cached_metrics under the
\* current configuration would return a table.
C29_CacheInfoIsValid ==
  [][last'.op = "get_cache_info" /\ now' = now =>
       /\ UNCHANGED cache_dir
       /\ last'.ret.value.is_valid
            <=> get_cached_metrics(config', cache_dir', now').ret # None]_vars

\* ------------------------------------------------------------- metrics table claim
\* the district ids of a table's rows, in row order
RowIds(df) == [i \in DOMAIN df.rows |-> df.rows[i].district_id]

\* C28: the table analyze_all_districts returns, computed or read from the
\* cache, has one row per district of the collection load_data stored last,
\* in the collection's order.
C28_OneRowPerLoadedDistrict ==
  [][(/\ last'.op = "analyze_all_districts"
      /\ last'.outcome \in {"computed", "cached"}
      /\ now' = now
      /\ districts_gdf # None)
       => RowIds(metrics_df') = districts_gdf.ids]_vars

\* ------------------------------------------------------------- transport score claim
\* weight (in thousandths) and sub-score of a component of the transport
\* score, 0 when its layer is not given
BusPart(w, ov, x) == IF ov.bus_stops THEN x ELSE 0
RoutePart(w, ov, x) == IF ov.bus_routes THEN x ELSE 0
MetroPart(w, ov, x) == IF ov.metro_stations \/ ov.metro_line THEN x ELSE 0
MetroSubScore(w, ov) ==
  IF ov.metro_stations THEN MetroStationScore(w) ELSE MetroLineScore(w)

\* C25: calculate_transport_score is the average of the bus-density,
\* route-connectivity and metro sub-scores with the weights 0.4/0.3/0.3 taken
\* over the sub-scores whose layer is present (rounded down to thousandths),
\* it lies in [0, 1], and it is 0 when no layer is present or the polygon is
\* invalid.
C25_TransportRenormalized ==
  slast.op = "calculate_transport_score" =>
    LET w == WorldDistrict(slast.d)
        ov == slast.ov
        den == BusPart(w, ov, 400) + RoutePart(w, ov, 300) + MetroPart(w, ov, 300)
        num == BusPart(w, ov, 400 * BusDensityScore(w))
                 + RoutePart(w, ov, 300 * RouteConnectivityScore(w))
                 + MetroPart(w, ov, 300 * MetroSubScore(w, ov))
    IN IF ~w.valid \/ den = 0 THEN slast.result = 0
       ELSE /\ slast.result * den <= num
            /\ num < (slast.result + 1) * den
            /\ slast.result >= 0
            /\ slast.result <= 1000

\* the district Norte (10 stops on 5 km2, density score 0.2) with the bus
\* stops as the only layer: the score is 0.2, not 0.4 * 0.2
C25_Witness ==
  /\ slast.op = "calculate_transport_score"
  /\ slast.d = 2
  /\ slast.ov = [k \in DOMAIN NoOverlays |-> k = "bus_stops"]
  /\ slast.result = 200

\* ------------------------------------------------------------- CacheManager claim
\* the last call was get(identifier, params, validator), just made
GetStep == clast'.op = "get" /\ now' = now
\* the logged entry is of the manager's version, within the TTL and accepted
\* by the validator of the call
Acceptable(entry, validator) ==
  /\ entry.version = cache_manager.version
  /\ now - entry.timestamp <= cache_manager.ttl_hours
  /\ (validator = None \/ entry.data \in validator.accepted)

\* the params that name the entry of params: the empty dict names the entry
\* of no params
EntryParams(params) == IF params = Dict({}) THEN None ELSE params

\* C26 as stated: get returns the data of the last set for the same
\* (identifier, params) when that entry was not invalidated or cleared since,
\* is of the manager's version, within ttl_hours and accepted by the
\* validator, and None in every other case.
C26_GetReturnsLastSet ==
  [][GetStep =>
       LET e == <<clast'.identifier, EntryParams(clast'.params)>>
       IN IF /\ e \in DOMAIN set_log
             /\ set_log[e].removed \notin {"invalidate", "clear_all"}
             /\ Acceptable(set_log[e], clast'.validator)
            THEN clast'.ret = Value(set_log[e].data)
            ELSE clast'.ret = None]_vars

\* C26 amended: get returns the data of the last set for the same
\* (identifier, params), the empty dict counting as no params, when the
\* entry was not removed since (by invalidate, clear_all, cleanup_expired or
\* a get that rejected it), is of the manager's version, within ttl_hours
\* and accepted by the validator, and None in every other case; a set under
\* other params leaves the entry as it is.
C26_GetReturnsLiveEntry ==
  [][GetStep =>
       LET e == <<clast'.identifier, EntryParams(clast'.params)>>
       IN IF /\ e \in DOMAIN set_log
             /\ set_log[e].removed = "no"
             /\ Acceptable(set_log[e], clast'.validator)
            THEN clast'.ret = Value(set_log[e].data)
            ELSE clast'.ret = None]_vars

\* get under no params returned 2 while the entry under {'param': 'A'}, set
\* later, holds 1
C26_Witness ==
  /\ clast.op = "get"
  /\ clast.params = None
  /\ clast.ret = Value(2)
  /\ <<"test", Dict({<<"param", "A">>})>> \in DOMAIN set_log
  /\ set_log[<<"test", Dict({<<"param", "A">>})>>].removed = "no"
  /\ set_log[<<"test", Dict({<<"param", "A">>})>>].data = 1
  /\ set_log[<<"test", Dict({<<"param", "A">>})>>].timestamp
       > set_log[<<"test", None>>].timestamp

\* ------------------------------------------------------------- facade claims
\* the step is a call of the facade method op
FacadeStep(op) == rlast'.op = op /\ rlast'.n # rlast.n

\* C23: RecommendationSystem.set_strategy(name) with a name that is not an
\* available strategy returns False and changes nothing: the current
\* strategy, current_strategy_name and the scored table are unchanged and no
\* observer is notified; with a known name it returns True, the current
\* strategy becomes that strategy and current_strategy_name becomes name.
C23_SetStrategy ==
  [][FacadeStep("set_strategy") =>
       IF rlast'.arg \notin Strategies
         THEN /\ rlast'.ret = Bool(FALSE)
              /\ _current_strategy' = _current_strategy
              /\ recommendation_system'.current_strategy_name =
                   recommendation_system.current_strategy_name
              /\ current_strategy_name' = current_strategy_name
              /\ current_scores' = current_scores
              /\ mlast' = mlast
         ELSE /\ rlast'.ret = Bool(TRUE)
              /\ _current_strategy' = Strategy(rlast'.arg)
              /\ recommendation_system'.current_strategy_name = Str(rlast'.arg)]_vars

\* an unknown name was refused while a strategy was active and scored, after
\* a known name had been accepted
C23_Witness ==
  /\ rlast.op = "set_strategy"
  /\ rlast.arg = "invalid_strategy"
  /\ rlast.ret = Bool(FALSE)
  /\ recommendation_system.current_strategy_name = Str("tourist")
  /\ _current_strategy = Strategy("tourist")
  /\ current_scores # None


\* C24: refresh_analysis always recomputes the metrics (it is never served
\* from the cache) and replaces the facade's metrics table; if a strategy is
\* active it is re-applied, so that the scored table is recomputed from the
\* new metrics under the same strategy and current_strategy_name is
\* unchanged; with no active strategy the scored table stays absent.
C24_RefreshAnalysis ==
  [][FacadeStep("refresh_analysis") =>
       LET computed == ComputeMetrics(districts_gdf.ids, config, overlays)
           name == recommendation_system.current_strategy_name
       IN /\ last'.op = "analyze_all_districts"
          /\ last'.force
          /\ last'.outcome = "computed"
          /\ metrics_df' = computed
          /\ recommendation_system'.metrics_df = computed
          /\ recommendation_system'.current_strategy_name = name
          /\ IF name # None
               THEN /\ _current_strategy' = Strategy(name.value)
                    /\ current_strategy_name' = Str(get_name(name.value))
                    /\ \E reverse_ties \in BOOLEAN :
                         current_scores' = ScoredTable(computed, name.value, reverse_ties)
               ELSE current_scores' = None]_vars

\* a refresh under the tourist strategy left a computed table, not the
\* one-district table of an earlier run's cache, in the analyzer and in the
\* facade, and the table was scored
C24_Witness ==
  /\ rlast.op = "refresh_analysis"
  /\ recommendation_system.current_strategy_name = Str("tourist")
  /\ recommendation_system.metrics_df # SampleDF
  /\ recommendation_system.metrics_df = metrics_df
  /\ current_scores # None
  /\ Len(current_scores.rows) = Len(metrics_df.rows)
  /\ last.outcome = "computed"
  /\ last.stale = FALSE
  /\ last.prev = "-"


\* C30: the CacheObserver's validity flag stays consistent with the
\* analyzer's cache: after an invalidating change has set cache_valid to
\* False, a completed re-analysis that rewrites the cache makes
\* is_cache_valid() return True again, so cache_valid is never False while a
\* valid current-configuration cache entry exists.
C30_CacheValidConsistent == ValidEntry => cache_valid
====
